---- MODULE Spec2Model ----
(***************************************************************************)
(* Model of the mind-meld embedding production loop                        *)
(* (src/embeddings/batch.ts), its embedding client with the NaN fallback   *)
(* chain (src/embeddings/ollama.ts) and the healing bookkeeping kept in    *)
(* the relational `embeddings` table.                                      *)
(*                                                                         *)
(* Texts are abstracted to what the code inspects: the number of content   *)
(* characters, the number of control/whitespace characters that            *)
(* sanitizeText removes, and whether a NOISE_PATTERNS regex matches.       *)
(* Vectors are abstracted to "vec" (all components finite) and             *)
(* "nonfinite" (some component NaN or Infinity).  A row of the embeddings   *)
(* table carries its age, NOW() - updated_at in whole days, saturating at   *)
(* MaxAge: the code reads updated_at only in that difference.               *)
(***************************************************************************)
EXTENDS Integers, Sequences, FiniteSets, TLC

(* ---------------- bounds of the model ---------------- *)
MaxMsg == 3
MaxAge == 8
BatchSize == 2
MaxSess == 2
MaxSessMsgs == 2

\* dimensions of a vector of the model (BGE_DIMENSIONS of the centroid service)
Dim == 2
\* hits a similarity query of a search returns
MaxHits == 2
\* rows per page of the centroid service (its BATCH_SIZE)
BATCH_SIZE == 2
\* runs of the centroid service for one session
MaxRuns == 2
MaxScopes == 3
MaxWanted == 2
\* the LIMIT of the pending-session query (100 in the code), on the scale of MaxSess
QueueLimit == 1
\* scheduler ticks of one life of the daemon
MaxTicks == 3

(* ---------------- program constants ---------------- *)
RetryLimit == 3
CooldownDays == 7
MaxRetries == 3
MinNoiseLen == 50
MinSqlLen == 10
MAX_EMBED_CHARS == 8000
MAX_CHARS_BEFORE_SUMMARIZE == 8000
AggLimit == 100

RoleLength(role) == IF role = "user" THEN Len("user") ELSE Len("assistant")

MsgIds == 1..MaxMsg
MESSAGES == "convo-messages"
UNEMBEDDABLE == "UNEMBEDDABLE"

(* ---------------- texts ---------------- *)
Text(b, p, n) == [body |-> b, pad |-> p, pat |-> n]
Length(t) == t.body + t.pad

\* the message contents that ingestion may have stored
MessageKinds ==
  { [text |-> Text(60, 0, FALSE),   role |-> "tool"],
    [text |-> Text(30, 0, FALSE),   role |-> "user"],
    [text |-> Text(60, 0, TRUE),    role |-> "assistant"],
    [text |-> Text(0, 60, FALSE),   role |-> "user"],
    [text |-> Text(9000, 0, FALSE), role |-> "assistant"] }

\* an ordinary message
Plain == [text |-> Text(60, 2, FALSE), role |-> "user"]

\* the stored conversations: some messages of one kind, followed by ordinary ones
Layouts ==
  { [m \in MsgIds |-> IF m <= k THEN a ELSE Plain] : k \in 0..MaxMsg, a \in MessageKinds }

\* what the summarization endpoint may answer
SummaryTexts == { Text(500, 0, FALSE), Text(0, 0, FALSE), Text(9000, 0, FALSE) }

sanitizeText(t) == [t EXCEPT !.pad = 0]

classifyNoise(t) ==
  IF Length(t) < MinNoiseLen THEN "too-short"
  ELSE IF t.pat THEN "pattern"
  ELSE "none"

\* summarizeChunk: the generated summary, or an error (response not ok, fetch failed)
SummarizeFailed == [ok |-> FALSE, text |-> Text(0, 0, FALSE)]
SummarizeAnswers == { [ok |-> TRUE, text |-> t] : t \in SummaryTexts } \cup { SummarizeFailed }

\* summarizeConversation answers its input unchanged up to 8000 characters
NeedsSummarizeCall(t) == Length(t) > MAX_CHARS_BEFORE_SUMMARIZE

(* ---------------- sessions ---------------- *)
SessIds == 1..MaxSess
SESSIONS == "convo-sessions"

\* a session as the aggregate path reads it: where it is synced from, COUNT(*) of its
\* messages, the summed length of their content_text, the summed length of the
\* formatted messages, and the column content_chars (0 also stands for NULL)
NewSession(src) ==
  [source |-> src, message_count |-> 0, raw |-> 0, fmt |-> 0, content_chars |-> 0]

NoVector == [chars |-> -1, raw |-> -1]

\* messages a sync may insert; len = 0 stands for a NULL or empty content_text
SyncedMessages ==
  { [len |-> 0, role |-> "assistant"],
    [len |-> 5, role |-> "user"],
    [len |-> 40, role |-> "assistant"] }

\* `[${m.role.toUpperCase()}]: ${m.content_text}`
FormattedLength(msg) == Len("[") + RoleLength(msg.role) + Len("]: ") + msg.len

(* ---------------- vectors ---------------- *)
\* a vector held by the vector store: Dim integers
Unit(i, sign) == [k \in 1..Dim |-> IF k = i THEN sign ELSE 0]
Zero == [k \in 1..Dim |-> 0]

\* the vectors a message can have in the store; << >> is an id the store has no
\* embedding of
StoredVectors == { Unit(1, 1), Unit(1, -1), Unit(Dim, 1), Zero }
Missing == << >>

RECURSIVE Dot(_, _)
Dot(a, b) == IF a = << >> THEN 0 ELSE Head(a) * Head(b) + Dot(Tail(a), Tail(b))

\* a computed vector is num / sqrt(den2): the mean of an integer sum is the sum
\* over the count, and a normalized vector is divided by a square root
Exact(v) == [num |-> v, den2 |-> 1]

\* sum.map((s) => s / processedCount)
Mean(total, count) == [num |-> total, den2 |-> count * count]

\* the square of the magnitude normalizeVector computes, times den2
Magnitude2(v) == Dot(v.num, v.num)

normalizeVector(v) ==
  IF Magnitude2(v) = 0 THEN v ELSE [num |-> v.num, den2 |-> Magnitude2(v)]

\* the vector has length one
IsUnit(v) == Magnitude2(v) = v.den2

\* a and b are the same vector
SameVector(a, b) ==
  /\ Len(a.num) = Len(b.num)
  /\ \A k \in 1..Len(a.num) :
       /\ a.num[k] * a.num[k] * b.den2 = b.num[k] * b.num[k] * a.den2
       /\ a.num[k] * b.num[k] >= 0

\* element-wise sum of two vectors of one dimension
AddTo(total, v) == [k \in 1..Len(total) |-> total[k] + v[k]]

RECURSIVE SumOf(_)
SumOf(vs) == IF vs = << >> THEN Zero ELSE AddTo(SumOf(Tail(vs)), Head(vs))

\* the centroid columns of a session that has none
NoCentroid == [vector |-> Exact(Missing), count |-> 0, at |-> 0]

(* ---------------- state ---------------- *)
VARIABLES
  messages,     \* relational table messages: id -> [text, role]
  embeddings,   \* relational table embeddings: a set of rows
  chroma,       \* vector store, collection convo-messages: id -> "absent" | "vec" | "nonfinite"
  pc,           \* position of generatePendingEmbeddings
  batch,        \* messagesToEmbed of the current iteration (ids, ascending)
  texts,        \* texts handed to generateEmbeddings, one per batch index
  result,       \* embeddings array being built: "vec" | "nonfinite" | "null" per index
  chain,        \* per message: the <<stage, outcome>> of each embed attempt of this iteration
  marked,       \* messages given a nan failure record by this iteration
  recorded,     \* messages given a success record by this iteration
  selected,     \* messages returned by the latest getMessagesToEmbed
  surfaced,     \* the message whose empty-after-sanitization error the latest generateEmbeddings raised
  last,         \* how the latest iteration ended: "none" | "recorded" | "aborted"
  cleaned,      \* cleaned.rowCount of the latest cleanup pass
  sessions,     \* relational table sessions: id -> [source, message_count, raw, fmt, content_chars]
  sessRows,     \* embeddings rows of collection convo-sessions: id -> content_chars_at_embed, -1 if none
  sessChroma,   \* vector store, collection convo-sessions: id -> [chars, raw], chars = -1 if absent
  aggpc,        \* position of updateAggregateEmbeddings
  aggQueue,     \* sessions.rows still to be processed by the for loop
  aggWrites,    \* write statements issued by the current run of the aggregate path
  aggFailed,    \* some session of the current run ended in the catch block or without a vector
  reembedded,   \* sessions whose vector the current run upserted
  quiet,        \* a run of the aggregate path has completed and no content was added since
  rerun,        \* the current run started in a quiet state
  batchSize,    \* config.embeddings.batchSize of the process
  crashed,      \* messages whose vector was upserted by a run that crashed before their record
  scope,        \* the messages of one session as the centroid queries see them: id -> [long, row, vec]
  centroid,     \* the session's centroid_vector, centroid_message_count, centroid_computed_at
  cpc,          \* position of updateSessionCentroid
  totalCount,   \* totalCount of the current computation
  processedCount, \* processedCount of the current computation
  lastMessageId,  \* lastMessageId of the current computation
  sum,          \* sum of the current computation
  retrieved,    \* the vectors the current computation got from the vector store and accumulated
  summed,       \* the messages whose vector the current computation accumulated, in order
  atStart,      \* the messages with an eligible vector when the current computation started
  returned,     \* what the latest computeSessionCentroid returned: "none" | "null" | "value"
  runs,         \* completed runs of updateSessionCentroid
  params,       \* the parameters of the search in progress: [mode, query, centroids]
  spc,          \* position of search
  results,      \* results of the search in progress
  seenSessionIds, \* seenSessionIds of the search in progress
  offered,      \* every result a ranking strategy of the search has handed to addResult
  answer,       \* what the search returned
  catalog,      \* the sessions as a search sees them: id -> which filter of the caller the session fails
  qin,          \* what the embedding endpoint and resolveCentroids answer to the request
  embedding,    \* the query vector the search hands to the similarity queries
  topScore,     \* per session, the highest score among its message hits that the message pass kept
  meets,        \* fetchWithRetry: what each attempt of the request in progress would meet
  attempts,     \* fetchWithRetry: attempts made for the request in progress
  fpc,          \* fetchWithRetry: "idle" | "trying" | "returned" | "threw"
  fout,         \* fetchWithRetry: what the call handed to its caller
  otherBatch,   \* the messages a second run of the loop has fetched and not yet recorded
  rtable,       \* resolveCentroids: the centroid_vector column, scope id -> vector or Missing
  rfield,       \* which exemplar parameter of the search the identifiers came in
  wanted,       \* the identifiers of that parameter as the caller wrote them
  resolved,     \* what resolveCentroids returned for them
  rout,         \* what composeQueryVector made of the query and the resolved exemplars
  rpc,          \* "idle" | "resolved" | "composed" | "threw"
  akind,        \* computeAll...Centroids: "session" | "project", the kind of scope of the run
  listed,       \* the scopes the listing query of the run returned
  fate,         \* what the update of each scope meets in this run
  aqueue,       \* the scopes the for loop has still to visit
  attempted,    \* the scopes whose update the run has called
  storedScopes, \* the scopes whose centroid the run has stored
  apc,          \* computeAll...Centroids: "idle" | "loop" | "done"
  isRunning,    \* the sync daemon's flag of cron.ts
  syncsInFlight,\* the runFullSync calls that have not settled: [at, errors] each
  dpc,          \* the daemon: "boot" | "initial" | "scheduled"
  ticks,        \* scheduler ticks delivered to runSync
  skipped,      \* calls of runSync that returned at the running check
  lastEnd       \* how the last runFullSync settled: "none" | "returned" | "threw"

loopVars == << messages, embeddings, chroma, pc, batch, texts, result,
               chain, marked, recorded, selected, surfaced, last, cleaned >>

aggVars == << sessions, sessRows, sessChroma, aggpc, aggQueue, aggWrites,
              aggFailed, reembedded, quiet, rerun >>

centroidVars == << scope, centroid, cpc, totalCount, processedCount, lastMessageId,
                   sum, retrieved, summed, atStart, returned, runs >>

searchVars == << params, spc, results, seenSessionIds, offered, answer, embedding,
                 topScore >>

\* what a search reads and never writes
searchEnv == << catalog, qin >>

fetchVars == << meets, attempts, fpc, fout >>

\* the state of the parts that stand on their own
allVars == << akind, listed, fate, aqueue, attempted, storedScopes, apc >>

resolveVars == << rtable, rfield, wanted, resolved, rout, rpc >>

cronVars == << isRunning, syncsInFlight, dpc, ticks, skipped, lastEnd >>

auxVars == << fetchVars, allVars, resolveVars, otherBatch, cronVars >>

\* what the message path leaves alone
outsideLoop == << aggVars, crashed, batchSize, centroidVars, searchVars, searchEnv, auxVars >>

\* what the aggregate path leaves alone
outsideAgg == << loopVars, crashed, batchSize, centroidVars, searchVars, searchEnv, auxVars >>

\* what the centroid service leaves alone
outsideCentroid == << loopVars, aggVars, crashed, batchSize, searchVars, searchEnv, auxVars >>

\* what a search leaves alone
outsideSearch == << loopVars, aggVars, crashed, batchSize, centroidVars, searchEnv, auxVars >>

\* everything but the parts that stand on their own
mainVars == << loopVars, aggVars, crashed, batchSize, centroidVars, searchVars, searchEnv >>

outsideFetch == << mainVars, allVars, resolveVars, otherBatch, cronVars >>
outsideAll == << mainVars, fetchVars, resolveVars, otherBatch, cronVars >>
outsideResolve == << mainVars, fetchVars, allVars, otherBatch, cronVars >>
outsideCron == << mainVars, fetchVars, allVars, resolveVars, otherBatch >>

\* what a second run of the loop leaves alone
outsideSecond == << aggVars, crashed, batchSize, centroidVars, searchVars, searchEnv,
                    fetchVars, allVars, resolveVars, cronVars >>

vars == << loopVars, outsideLoop >>

(* ---------------- the embeddings table ---------------- *)
Row(m, coll, reason, rc, a, chars) ==
  [message_id |-> m, chroma_collection |-> coll, failure_reason |-> reason,
   retry_count |-> rc, age |-> a, content_chars_at_embed |-> chars]

RowsOf(tbl, m, coll) == { r \in tbl : r.message_id = m /\ r.chroma_collection = coll }
HasRow(tbl, m, coll) == RowsOf(tbl, m, coll) # {}

\* variant of markUnembeddable without the unique constraint: a write to a pair
\* that has a record adds the new version next to the old one
markUnembeddableInsert(tbl, m, reason) ==
  tbl \cup
    IF RowsOf(tbl, m, UNEMBEDDABLE) # {}
      THEN { [r EXCEPT !.failure_reason = reason,
                       !.retry_count = IF reason = "nan" THEN r.retry_count + 1 ELSE r.retry_count,
                       !.age = 0] : r \in RowsOf(tbl, m, UNEMBEDDABLE) }
      ELSE { Row(m, UNEMBEDDABLE, reason, IF reason = "nan" THEN 1 ELSE 0, 0, 0) }

\* variant of markUnembeddable that starts the count again on every failure
markUnembeddableFromOne(tbl, m, reason) ==
  (tbl \ RowsOf(tbl, m, UNEMBEDDABLE))
    \cup { Row(m, UNEMBEDDABLE, reason, IF reason = "nan" THEN 1 ELSE 0, 0, 0) }

\* INSERT ... ON CONFLICT (message_id, chroma_collection) DO UPDATE of markUnembeddable
markUnembeddable(tbl, m, reason) ==
  IF HasRow(tbl, m, UNEMBEDDABLE)
    THEN (tbl \ RowsOf(tbl, m, UNEMBEDDABLE)) \cup
         { [r EXCEPT !.failure_reason = reason,
                     !.retry_count = IF reason = "nan" THEN r.retry_count + 1 ELSE r.retry_count,
                     !.age = 0] : r \in RowsOf(tbl, m, UNEMBEDDABLE) }
    ELSE tbl \cup { Row(m, UNEMBEDDABLE, reason, IF reason = "nan" THEN 1 ELSE 0, 0, 0) }

\* the retry_count of the failure record of message m, 0 when it has none
RetryCount(tbl, m) ==
  IF HasRow(tbl, m, UNEMBEDDABLE)
    THEN (CHOOSE r \in RowsOf(tbl, m, UNEMBEDDABLE) : TRUE).retry_count
    ELSE 0

RECURSIVE markAll(_, _, _)
markAll(tbl, S, reason) ==
  IF S = {} THEN tbl
  ELSE LET m == CHOOSE x \in S : TRUE
       IN markAll(markUnembeddable(tbl, m, reason), S \ {m}, reason)

\* INSERT ... ON CONFLICT DO UPDATE SET content_chars_at_embed of the success record
upsertRecord(tbl, m, chars) ==
  IF HasRow(tbl, m, MESSAGES)
    THEN (tbl \ RowsOf(tbl, m, MESSAGES)) \cup
         { [r EXCEPT !.content_chars_at_embed = chars] : r \in RowsOf(tbl, m, MESSAGES) }
    ELSE tbl \cup { Row(m, MESSAGES, "null", 0, 0, chars) }

RECURSIVE upsertAll(_, _, _)
upsertAll(tbl, S, msgs) ==
  IF S = {} THEN tbl
  ELSE LET m == CHOOSE x \in S : TRUE
       IN upsertAll(upsertRecord(tbl, m, Length(msgs[m].text)), S \ {m}, msgs)

(* ---------------- candidate selection ---------------- *)
\* variant of Eligible that forgets the failure reason
EligibleAnyReason(r) ==
  /\ r.retry_count < RetryLimit
  /\ r.age > CooldownDays

\* variant of Eligible that forgets the cooldown
EligibleWithoutCooldown(r) ==
  /\ r.failure_reason = "nan"
  /\ r.retry_count < RetryLimit

\* the condition inside NOT ( ... ) of the skip join
Eligible(r) ==
  /\ r.failure_reason = "nan"
  /\ r.retry_count < RetryLimit
  /\ r.age > CooldownDays

\* LEFT JOIN embeddings skip ... : the rows that exclude message m
SkipRows(tbl, m) == { r \in RowsOf(tbl, m, UNEMBEDDABLE) : ~ Eligible(r) }

\* variant of IsCandidate that also looks for the vector in Chroma
IsCandidateUnlessVector(msgs, tbl, m) ==
  /\ Length(msgs[m].text) > MinSqlLen
  /\ msgs[m].role # "tool"
  /\ ~ HasRow(tbl, m, MESSAGES)
  /\ { r \in RowsOf(tbl, m, UNEMBEDDABLE) : ~ Eligible(r) } = {}
  /\ chroma[m] = "absent"

\* variant of IsCandidate without the e.id IS NULL test of the success join
IsCandidateIgnoringSuccess(msgs, tbl, m) ==
  /\ Length(msgs[m].text) > MinSqlLen
  /\ msgs[m].role # "tool"
  /\ SkipRows(tbl, m) = {}

\* the WHERE clause of the candidate query
IsCandidate(msgs, tbl, m) ==
  /\ Length(msgs[m].text) > MinSqlLen
  /\ msgs[m].role # "tool"
  /\ ~ HasRow(tbl, m, MESSAGES)
  /\ SkipRows(tbl, m) = {}

Candidates(msgs, tbl) == { m \in MsgIds : IsCandidate(msgs, tbl, m) }

\* Math.ceil(limit * 1.3)
Overfetch(limit) == (limit * 13 + 9) \div 10

\* ORDER BY m.id LIMIT k
FirstK(S, k) == { m \in S : Cardinality({ x \in S : x < m }) < k }

RECURSIVE SortedSeq(_)
SortedSeq(S) ==
  IF S = {} THEN << >>
  ELSE LET lo == CHOOSE x \in S : \A y \in S : x <= y
       IN << lo >> \o SortedSeq(S \ {lo})

QueryRows(msgs, tbl) == FirstK(Candidates(msgs, tbl), Overfetch(batchSize))
Skipped(msgs, rows) == { m \in rows : classifyNoise(msgs[m].text) # "none" }
Kept(msgs, rows) == FirstK(rows \ Skipped(msgs, rows), batchSize)

\* variant of Exhausted that counts the rows kept after the noise filter
ExhaustedAfterFilter(msgs, rows) == Cardinality(Kept(msgs, rows)) < batchSize

\* exhausted: result.rows.length < overfetch
Exhausted(msgs, rows) == Cardinality(rows) < Overfetch(batchSize)

Range(s) == { s[i] : i \in DOMAIN s }
NoChain == [m \in MsgIds |-> << >>]

(* ---------------- initial state ---------------- *)
\* the message path before its first run
LoopIdle ==
  /\ embeddings = {}
  /\ chroma = [m \in MsgIds |-> "absent"]
  /\ pc = "idle"
  /\ batch = << >>
  /\ texts = << >>
  /\ result = << >>
  /\ chain = NoChain
  /\ marked = {}
  /\ recorded = {}
  /\ selected = {}
  /\ surfaced = {}
  /\ last = "none"
  /\ cleaned = 0

\* the aggregate path before its first run
AggIdle ==
  /\ sessRows = [s \in SessIds |-> -1]
  /\ sessChroma = [s \in SessIds |-> NoVector]
  /\ aggpc = "idle"
  /\ aggQueue = << >>
  /\ aggWrites = 0
  /\ aggFailed = FALSE
  /\ reembedded = {}
  /\ quiet = FALSE
  /\ rerun = FALSE

\* a session without messages, for the specifications that do not compute centroids
NoScope == scope = [m \in MsgIds |-> [long |-> FALSE, row |-> FALSE, vec |-> Missing]]

\* the centroid service before its first run
CentroidIdle ==
  /\ centroid = NoCentroid
  /\ cpc = "idle"
  /\ totalCount = 0
  /\ processedCount = 0
  /\ lastMessageId = 0
  /\ sum = Zero
  /\ retrieved = << >>
  /\ summed = << >>
  /\ atStart = {}
  /\ returned = "none"
  /\ runs = 0

\* no message hit kept
NoScores == [id \in {} |-> 0]

\* no query vector
NoEmbedding == Exact(Missing)

\* a request whose query text embeds to the first unit vector, without negative
\* query text and without centroids behind its exemplars
PlainInput ==
  [q |-> Unit(1, 1), n |-> Missing, likeSession |-> << >>, unlikeSession |-> << >>,
   likeProject |-> << >>, unlikeProject |-> << >>]

PlainQuery == qin = PlainInput

\* every session is live and passes every filter a caller supplies
AllVisible == catalog = [s \in SessIds |-> "ok"]

\* no search yet
NoParams == [mode |-> "hybrid", query |-> FALSE, centroids |-> FALSE]

\* no request to the endpoint in progress
NoAttempts == [i \in 1..MaxRetries |-> "ok"]

FetchIdle ==
  /\ meets = NoAttempts
  /\ attempts = 0
  /\ fpc = "idle"
  /\ fout = "none"

\* no run over all scopes in progress
ScopeIds == 1..MaxScopes
NoFate == [s \in ScopeIds |-> "value"]

AllIdle ==
  /\ akind = "session"
  /\ listed = {}
  /\ fate = NoFate
  /\ aqueue = << >>
  /\ attempted = {}
  /\ storedScopes = {}
  /\ apc = "idle"

\* no exemplar being resolved
NoOutput == [threw |-> FALSE, vec |-> Exact(Missing)]

ResolveIdle ==
  /\ rtable = [s \in ScopeIds |-> Missing]
  /\ rfield = "likeSession"
  /\ wanted = << >>
  /\ resolved = << >>
  /\ rout = NoOutput
  /\ rpc = "idle"

\* the daemon's module has been loaded and nothing has been called (cron.ts line 20)
CronIdle ==
  /\ isRunning = FALSE
  /\ syncsInFlight = << >>
  /\ dpc = "boot"
  /\ ticks = 0
  /\ skipped = 0
  /\ lastEnd = "none"

AuxIdle == FetchIdle /\ AllIdle /\ ResolveIdle /\ otherBatch = {} /\ CronIdle

SearchIdle ==
  /\ params = NoParams
  /\ spc = "idle"
  /\ results = << >>
  /\ seenSessionIds = {}
  /\ offered = {}
  /\ answer = << >>
  /\ embedding = NoEmbedding
  /\ topScore = NoScores

Init ==
  /\ messages \in Layouts
  /\ LoopIdle
  /\ sessions = [s \in SessIds |-> NewSession("cursor")]
  /\ AggIdle
  /\ NoScope
  /\ CentroidIdle
  /\ SearchIdle
  /\ AuxIdle
  /\ PlainQuery
  /\ AllVisible
  /\ crashed = {}
  /\ batchSize = BatchSize

(* ---------------- the clock ---------------- *)
\* a day passes between two runs of the loop
Tick ==
  /\ pc = "idle"
  /\ embeddings' = { [r EXCEPT !.age = IF r.chroma_collection = UNEMBEDDABLE /\ r.age < MaxAge
                                        THEN r.age + 1 ELSE r.age] : r \in embeddings }
  /\ embeddings' # embeddings
  /\ UNCHANGED << messages, chroma, pc, batch, texts, result,
                  chain, marked, recorded, selected, surfaced, last, cleaned >>
  /\ UNCHANGED outsideLoop

(* ---------------- generatePendingEmbeddings ---------------- *)
StartRun ==
  /\ pc = "idle"
  /\ pc' = "fetch"
  /\ UNCHANGED << messages, embeddings, chroma, batch, texts, result,
                  chain, marked, recorded, selected, surfaced, last, cleaned >>
  /\ UNCHANGED outsideLoop

\* one call of getMessagesToEmbed and the branch on its answer (lines 167-173)
Fetch ==
  /\ pc = "fetch"
  /\ LET rows == QueryRows(messages, embeddings)
         kept == Kept(messages, rows)
         exhausted == Exhausted(messages, rows)
     IN /\ embeddings' = markAll(embeddings, Skipped(messages, rows), "noise")
        /\ selected' = kept
        /\ batch' = SortedSeq(kept)
        /\ pc' = IF kept = {} THEN (IF exhausted THEN "cleanup" ELSE "fetch") ELSE "prepare"
  /\ texts' = << >> /\ result' = << >>
  /\ chain' = NoChain /\ marked' = {} /\ recorded' = {} /\ last' = "none"
  /\ UNCHANGED << messages, chroma, surfaced, cleaned >>
  /\ UNCHANGED outsideLoop

\* the catch block of the batch (stats.errors++), the delay, and the loop test;
\* the locals of the iteration are gone
BatchFailed ==
  /\ pc' = "fetch"
  /\ last' = "aborted"
  /\ batch' = << >> /\ texts' = << >> /\ result' = << >>
  /\ chain' = NoChain
  /\ UNCHANGED << messages, embeddings, chroma, marked, recorded, selected, cleaned >>
  /\ UNCHANGED outsideLoop

\* chain with one more entry for every message of S
Logged(S, stage, out) ==
  [m \in MsgIds |-> IF m \in S THEN Append(chain[m], << stage, out >>) ELSE chain[m]]

\* fetchWithRetry, given what each attempt of the request meets ("ok", "nan_error",
\* "nonfinite", "transient" or "other"): a timeout or connection error is retried
\* while attempts remain, anything else ends the call
RECURSIVE fetchWithRetryFrom(_, _)
fetchWithRetryFrom(outs, attempt) ==
  IF outs[attempt] = "transient" /\ attempt < MaxRetries
    THEN fetchWithRetryFrom(outs, attempt + 1)
    ELSE outs[attempt]

fetchWithRetry(outs) == fetchWithRetryFrom(outs, 1)

EmbedAnswers == {"ok", "nan_error", "nonfinite", "transient", "other"}
GenerateAnswers == {"ok", "transient", "other"}

\* what a call through the Ollama client can end with
ClientOutcomes(answers) == { fetchWithRetry(outs) : outs \in [1..MaxRetries -> answers] }

\* lines 181-192: long messages are summarized before embedding
IsLong(i) == Length(messages[batch[i]].text) > MAX_EMBED_CHARS

Prepare ==
  /\ pc = "prepare"
  /\ \E sums \in [DOMAIN batch -> SummarizeAnswers] :
       /\ \A i \in DOMAIN batch : ~ IsLong(i) => sums[i] = SummarizeFailed
       /\ IF \E i \in DOMAIN batch : IsLong(i) /\ sums[i] = SummarizeFailed
            THEN /\ BatchFailed
                 /\ UNCHANGED surfaced
            ELSE /\ pc' = "embed"
                 /\ texts' = [i \in DOMAIN batch |->
                                IF IsLong(i) THEN sums[i].text ELSE messages[batch[i]].text]
                 /\ UNCHANGED << messages, embeddings, chroma, batch, result,
                                 chain, marked, recorded, selected, surfaced, last, cleaned >>
                 /\ UNCHANGED outsideLoop

(* ---------------- generateEmbeddings ---------------- *)
EmptyIdx == { i \in DOMAIN texts : Length(sanitizeText(texts[i])) = 0 }
FirstEmpty == CHOOSE i \in EmptyIdx : \A j \in EmptyIdx : i <= j

\* the validation loop throws for the first text that is empty after sanitization
EmbedEmpty ==
  /\ pc = "embed"
  /\ EmptyIdx # {}
  /\ surfaced' = { batch[FirstEmpty] }
  /\ BatchFailed

\* ollama.embed of the whole batch answers with vectors: they are returned as they are
EmbedBatchOk ==
  /\ pc = "embed"
  /\ EmptyIdx = {}
  /\ \E bad \in {0} \cup DOMAIN batch :
       result' = [i \in DOMAIN batch |-> IF i = bad THEN "nonfinite" ELSE "vec"]
  /\ pc' = "record"
  /\ surfaced' = {}
  /\ UNCHANGED << messages, embeddings, chroma, batch, texts,
                  chain, marked, recorded, selected, last, cleaned >>
  /\ UNCHANGED outsideLoop

\* ollama.embed throws an error mentioning NaN: on to generateEmbeddingsWithFallback
EmbedBatchNaN ==
  /\ pc = "embed"
  /\ EmptyIdx = {}
  /\ "nan_error" \in ClientOutcomes(EmbedAnswers)
  /\ chain' = Logged(Range(batch), "raw", "nan")
  /\ result' = << >>
  /\ pc' = "fb_item"
  /\ surfaced' = {}
  /\ UNCHANGED << messages, embeddings, chroma, batch, texts,
                  marked, recorded, selected, last, cleaned >>
  /\ UNCHANGED outsideLoop

\* ollama.embed throws any other error: rethrown to the batch's catch block
EmbedBatchThrows ==
  /\ pc = "embed"
  /\ EmptyIdx = {}
  /\ ClientOutcomes(EmbedAnswers) \cap {"transient", "other"} # {}
  /\ BatchFailed
  /\ surfaced' = {}

(* ---------------- generateEmbeddingsWithFallback ---------------- *)
cur == batch[Len(result) + 1]

\* variant of Push that puts the new entry in front of the others
PushFront(x) ==
  /\ result' = << x >> \o result
  /\ pc' = IF Len(result) + 1 = Len(batch) THEN "record" ELSE "fb_item"

\* embeddings.push(x) and the loop test of the for loop over the texts
Push(x) ==
  /\ result' = Append(result, x)
  /\ pc' = IF Len(result) + 1 = Len(batch) THEN "record" ELSE "fb_item"

\* an error leaves generateEmbeddingsWithFallback and lands in the batch's catch block
FbThrows ==
  /\ BatchFailed
  /\ UNCHANGED surfaced

FbFrame == UNCHANGED << messages, embeddings, chroma, batch, texts,
                        marked, recorded, selected, surfaced, last, cleaned, outsideLoop >>

\* lines 230-246 and 327-329: the text is embedded on its own
FbItem ==
  /\ pc = "fb_item"
  /\ \E out \in ClientOutcomes(EmbedAnswers) :
       \/ /\ out = "ok"
          /\ chain' = [chain EXCEPT ![cur] = << >>]
          /\ Push("vec")
          /\ FbFrame
       \/ /\ out \in {"nan_error", "nonfinite"}
          /\ chain' = Logged({cur}, "item", "nan")
          /\ pc' = "fb_sum"
          /\ UNCHANGED result
          /\ FbFrame
       \/ /\ out \in {"transient", "other"}
          /\ FbThrows

\* line 254: summarizeConversation([sanitizedTexts[i]])
FbSummarize ==
  /\ pc = "fb_sum"
  /\ IF NeedsSummarizeCall(sanitizeText(texts[Len(result) + 1]))
       THEN \E ans \in SummarizeAnswers :
              IF ans.ok
                THEN /\ pc' = "fb_sumembed"
                     /\ UNCHANGED << result, chain >>
                     /\ FbFrame
                ELSE FbThrows
       ELSE /\ pc' = "fb_sumembed"
            /\ UNCHANGED << result, chain >>
            /\ FbFrame

\* lines 257-271 and 318-325: the summarized text is embedded
FbSumEmbed ==
  /\ pc = "fb_sumembed"
  /\ \E out \in ClientOutcomes(EmbedAnswers) :
       \/ /\ out = "ok"
          /\ chain' = [chain EXCEPT ![cur] = << >>]
          /\ Push("vec")
          /\ FbFrame
       \/ /\ out \in {"nan_error", "nonfinite"}
          /\ chain' = Logged({cur}, "summarized", "nan")
          /\ pc' = "fb_reph"
          /\ UNCHANGED result
          /\ FbFrame
       \/ /\ out \in {"transient", "other"}
          /\ FbThrows

\* line 284: rephraseText; any error lands in the catch of line 302
FbRephrase ==
  /\ pc = "fb_reph"
  /\ \E out \in ClientOutcomes(GenerateAnswers) :
       \/ /\ out = "ok"
          /\ pc' = "fb_rephembed"
          /\ UNCHANGED << result, chain >>
       \/ /\ out \in {"transient", "other"}
          /\ chain' = Logged({cur}, "rephrase", out)
          /\ Push("null")
  /\ FbFrame

\* lines 287-317: the rephrased text is embedded; any error gives null
FbRephEmbed ==
  /\ pc = "fb_rephembed"
  /\ \E out \in ClientOutcomes(EmbedAnswers) :
       \/ /\ out = "ok"
          /\ chain' = [chain EXCEPT ![cur] = << >>]
          /\ Push("vec")
       \/ /\ out \in {"nan_error", "nonfinite"}
          /\ chain' = Logged({cur}, "rephrased", "nan")
          /\ Push("null")
       \/ /\ out \in {"transient", "other"}
          /\ chain' = Logged({cur}, "rephrased", out)
          /\ Push("null")
  /\ FbFrame

(* ---------------- recording the batch ---------------- *)
Failed == { batch[i] : i \in { j \in DOMAIN result : result[j] = "null" } }
\* variant of Successful that drops the whole batch when one item has no vector
SuccessfulUnlessAnyFailed ==
  IF Failed = {} THEN { batch[i] : i \in { j \in DOMAIN result : result[j] # "null" } } ELSE {}

Successful == { batch[i] : i \in { j \in DOMAIN result : result[j] # "null" } }
VectorOf(m) == result[CHOOSE i \in DOMAIN batch : batch[i] = m]

\* lines 195-263: failures are marked, successes go to Chroma and then to PostgreSQL;
\* an error of the vector store lands in the batch's catch block
Record ==
  /\ pc = "record"
  /\ marked' = Failed
  /\ chain' = [m \in MsgIds |-> IF m \in Failed THEN chain[m] ELSE << >>]
  /\ LET tbl == markAll(embeddings, Failed, "nan")
         upserted == [m \in MsgIds |-> IF m \in Successful THEN VectorOf(m) ELSE chroma[m]]
     IN IF Successful = {}
          THEN /\ embeddings' = tbl
               /\ last' = "recorded"
               /\ UNCHANGED << chroma, recorded >>
          ELSE \/ /\ chroma' = upserted
                  /\ embeddings' = upsertAll(tbl, Successful, messages)
                  /\ recorded' = Successful
                  /\ last' = "recorded"
               \/ /\ embeddings' = tbl
                  /\ last' = "aborted"
                  /\ UNCHANGED << chroma, recorded >>
  /\ pc' = "fetch"
  /\ batch' = << >> /\ texts' = << >> /\ result' = << >>
  /\ UNCHANGED << messages, selected, surfaced, cleaned >>
  /\ UNCHANGED outsideLoop

\* the process dies at line 237-240: the failures are marked and the vectors are in
\* Chroma, no success record is written; the next run starts from scratch
CrashAfterUpsert ==
  /\ pc = "record"
  /\ Successful # {}
  /\ crashed = {}
  /\ embeddings' = markAll(embeddings, Failed, "nan")
  /\ chroma' = [m \in MsgIds |-> IF m \in Successful THEN VectorOf(m) ELSE chroma[m]]
  /\ crashed' = Successful
  /\ pc' = "idle"
  /\ batch' = << >> /\ texts' = << >> /\ result' = << >>
  /\ chain' = NoChain /\ marked' = {} /\ recorded' = {} /\ selected' = {}
  /\ surfaced' = {} /\ last' = "none"
  /\ UNCHANGED << messages, cleaned, aggVars, batchSize, centroidVars, searchVars, searchEnv, auxVars >>

\* variant of Orphans that matches only failure records that used up their retries
OrphansOutOfRetries(tbl) ==
  { r \in tbl : /\ r.chroma_collection = UNEMBEDDABLE
                /\ HasRow(tbl, r.message_id, MESSAGES)
                /\ r.retry_count >= RetryLimit }

\* variant of Orphans that matches every failure record
OrphansEveryFailure(tbl) ==
  { r \in tbl : r.chroma_collection = UNEMBEDDABLE }

\* the rows matched by the DELETE of the cleanup pass
Orphans(tbl) ==
  { r \in tbl : r.chroma_collection = UNEMBEDDABLE /\ HasRow(tbl, r.message_id, MESSAGES) }

\* lines 273-283: failure rows of messages that now have a success row are deleted
Cleanup ==
  /\ pc = "cleanup"
  /\ embeddings' = embeddings \ Orphans(embeddings)
  /\ cleaned' = Cardinality(Orphans(embeddings))
  /\ pc' = "done"
  /\ UNCHANGED << messages, chroma, batch, texts, result,
                  chain, marked, recorded, selected, surfaced, last >>
  /\ UNCHANGED outsideLoop

\* line 285: the run returns its stats; its locals are gone
Return ==
  /\ pc = "done"
  /\ pc' = "idle"
  /\ surfaced' = {}
  /\ cleaned' = 0
  /\ UNCHANGED << messages, embeddings, chroma, batch, texts, result,
                  chain, marked, recorded, selected, last >>
  /\ UNCHANGED outsideLoop

generateEmbeddings == EmbedEmpty \/ EmbedBatchOk \/ EmbedBatchNaN \/ EmbedBatchThrows

generateEmbeddingsWithFallback == FbItem \/ FbSummarize \/ FbSumEmbed \/ FbRephrase \/ FbRephEmbed

(* ---------------- sync of sessions ---------------- *)
\* session s with one more message
WithMessage(s, msg) ==
  [sessions[s] EXCEPT !.message_count = @ + 1,
                      !.raw = @ + msg.len,
                      !.fmt = @ + (IF msg.len > 0 THEN FormattedLength(msg) ELSE 0)]

\* syncSession of the Claude Code sync: the message is inserted whatever its
\* content_text, then update_session_stats; content_chars is left as it is
SyncClaudeCode ==
  /\ aggpc = "idle"
  /\ \E s \in SessIds : \E msg \in SyncedMessages :
       /\ sessions[s].source = "claude-code"
       /\ sessions[s].message_count < MaxSessMsgs
       /\ sessions' = [sessions EXCEPT ![s] = WithMessage(s, msg)]
  /\ quiet' = FALSE
  /\ UNCHANGED << sessRows, sessChroma, aggpc, aggQueue, aggWrites, aggFailed, reembedded, rerun >>
  /\ UNCHANGED outsideAgg

\* the Cursor sync: a message without text is skipped, then update_session_stats
\* and updateSessionContentChars
SyncCursor ==
  /\ aggpc = "idle"
  /\ \E s \in SessIds : \E msg \in SyncedMessages :
       /\ sessions[s].source = "cursor"
       /\ sessions[s].message_count < MaxSessMsgs
       /\ msg.len > 0
       /\ sessions' = [sessions EXCEPT ![s] =
                         [WithMessage(s, msg) EXCEPT !.content_chars = WithMessage(s, msg).raw]]
  /\ quiet' = FALSE
  /\ UNCHANGED << sessRows, sessChroma, aggpc, aggQueue, aggWrites, aggFailed, reembedded, rerun >>
  /\ UNCHANGED outsideAgg

(* ---------------- updateAggregateEmbeddings ---------------- *)
\* the WHERE clause of the session query (lines 347-353)
NeedsEmbedding(s) ==
  /\ sessions[s].message_count > 0
  /\ \/ sessRows[s] = -1
     \/ sessions[s].content_chars > sessRows[s]
     \/ sessions[s].content_chars = 0

\* lines 327-361: the query, and the early return when it gives no row
AggStartOf(limit) ==
  /\ aggpc = "idle"
  /\ LET rows == FirstK({ s \in SessIds : NeedsEmbedding(s) }, limit)
     IN /\ aggQueue' = SortedSeq(rows)
        /\ aggpc' = IF rows = {} THEN "done" ELSE "loop"
  /\ rerun' = quiet
  /\ aggWrites' = 0
  /\ aggFailed' = FALSE
  /\ reembedded' = {}
  /\ UNCHANGED << sessions, sessRows, sessChroma, quiet >>
  /\ UNCHANGED outsideAgg

AggStart == AggStartOf(AggLimit)

\* the query when more sessions are pending than its LIMIT lets through
AggStartFull == AggStartOf(QueueLimit)

\* markSessionProcessed: UPDATE sessions SET content_chars, and the upsert of the record
markSessionProcessed(s, contentChars) ==
  /\ sessions' = [sessions EXCEPT ![s].content_chars = contentChars]
  /\ sessRows' = [sessRows EXCEPT ![s] = contentChars]

\* lines 368-507: the body of the for loop for one session
AggSession ==
  /\ aggpc = "loop"
  /\ LET s == Head(aggQueue)
         meta == sessChroma[s].chars
         actualContentChars == sessions[s].fmt
         embedded == [chars |-> actualContentChars, raw |-> sessions[s].raw]
     IN \/ \* getEmbeddingMetadata throws
           /\ aggFailed' = TRUE
           /\ UNCHANGED << sessions, sessRows, sessChroma, aggWrites, reembedded >>
        \/ \* Chroma already has the session with sufficient content_chars
           /\ meta > 0 /\ meta >= sessions[s].content_chars
           /\ sessRows' = [sessRows EXCEPT ![s] = meta]
           /\ aggWrites' = aggWrites + 1
           /\ UNCHANGED << sessions, sessChroma, aggFailed, reembedded >>
        \/ \* no message with content
           /\ ~ (meta > 0 /\ meta >= sessions[s].content_chars)
           /\ sessions[s].raw = 0
           /\ markSessionProcessed(s, 0)
           /\ aggWrites' = aggWrites + 2
           /\ UNCHANGED << sessChroma, aggFailed, reembedded >>
        \/ \* summarize, embed, upsert to Chroma, update the session, upsert the record
           /\ ~ (meta > 0 /\ meta >= sessions[s].content_chars)
           /\ sessions[s].raw > 0
           /\ \E out \in {"vec", "null", "throws", "chroma_only"} :
                CASE out = "vec" ->
                       /\ sessChroma' = [sessChroma EXCEPT ![s] = embedded]
                       /\ markSessionProcessed(s, actualContentChars)
                       /\ aggWrites' = aggWrites + 3
                       /\ reembedded' = reembedded \cup {s}
                       /\ UNCHANGED aggFailed
                  [] out = "null" ->
                       /\ markSessionProcessed(s, actualContentChars)
                       /\ aggWrites' = aggWrites + 2
                       /\ aggFailed' = TRUE
                       /\ UNCHANGED << sessChroma, reembedded >>
                  [] out = "throws" ->
                       /\ aggFailed' = TRUE
                       /\ UNCHANGED << sessions, sessRows, sessChroma, aggWrites, reembedded >>
                  [] out = "chroma_only" ->
                       /\ sessChroma' = [sessChroma EXCEPT ![s] = embedded]
                       /\ aggWrites' = aggWrites + 1
                       /\ reembedded' = reembedded \cup {s}
                       /\ aggFailed' = TRUE
                       /\ UNCHANGED << sessions, sessRows >>
  /\ aggQueue' = Tail(aggQueue)
  /\ aggpc' = IF Tail(aggQueue) = << >> THEN "done" ELSE "loop"
  /\ UNCHANGED << quiet, rerun >>
  /\ UNCHANGED outsideAgg

\* line 510: the run returns its counts
AggReturn ==
  /\ aggpc = "done"
  /\ aggpc' = "idle"
  /\ quiet' = ~ aggFailed
  /\ aggWrites' = 0
  /\ aggFailed' = FALSE
  /\ reembedded' = {}
  /\ rerun' = FALSE
  /\ UNCHANGED << sessions, sessRows, sessChroma, aggQueue >>
  /\ UNCHANGED outsideAgg

Sources == {"claude-code", "cursor"}

AggInit ==
  /\ messages = [m \in MsgIds |-> Plain]
  /\ LoopIdle
  /\ sessions \in [SessIds -> { NewSession(src) : src \in Sources }]
  /\ AggIdle
  /\ NoScope
  /\ CentroidIdle
  /\ SearchIdle
  /\ AuxIdle
  /\ PlainQuery
  /\ AllVisible
  /\ crashed = {}
  /\ batchSize = BatchSize

AggNext ==
  \/ SyncClaudeCode
  \/ SyncCursor
  \/ AggStart
  \/ AggSession
  \/ AggReturn

AggSpec == AggInit /\ [][AggNext]_vars

\* the aggregate path with a full queue
QueueNext ==
  \/ SyncClaudeCode
  \/ SyncCursor
  \/ AggStartFull
  \/ AggSession
  \/ AggReturn

\* the aggregate path is scheduled again and again, and a run that has started
\* goes through its sessions and returns
FairQueueSpec ==
  /\ AggInit
  /\ [][QueueNext]_vars
  /\ WF_vars(AggStartFull)
  /\ WF_vars(AggSession)
  /\ WF_vars(AggReturn)

(* ---------------- compute-centroids ---------------- *)
\* the rows of the count query: embeddings of the messages collection whose message
\* has more than ten characters of text
CountRows(tbl) == { m \in MsgIds : tbl[m].row /\ tbl[m].long }

\* the rows of the page query: embeddings of the messages collection after the last
\* id seen
PageRows(tbl, after) == { m \in MsgIds : tbl[m].row /\ m > after }

\* ORDER BY m.id LIMIT BATCH_SIZE
PageOf(tbl, after) == FirstK(PageRows(tbl, after), BATCH_SIZE)

\* embedding && embedding.length === BGE_DIMENSIONS
Accumulated(tbl, page) ==
  SelectSeq(SortedSeq(page), LAMBDA m : Len(tbl[m].vec) = Dim)

VectorsOf(tbl, ids) == [i \in 1..Len(ids) |-> tbl[ids[i]].vec]

\* a message whose vector the computation is to sum
HasVector(tbl, m) == tbl[m].row /\ tbl[m].long /\ Len(tbl[m].vec) = Dim

\* the count of the result: the number of vectors at the start of the computation
CountedAtStart == totalCount

\* the count of the result: processedCount
CentroidCount == processedCount

\* computeSessionCentroid up to its loop: the count query
CentroidStart ==
  /\ cpc = "idle"
  /\ runs < MaxRuns
  /\ totalCount' = Cardinality(CountRows(scope))
  /\ processedCount' = 0
  /\ lastMessageId' = 0
  /\ sum' = Zero
  /\ retrieved' = << >>
  /\ summed' = << >>
  /\ atStart' = { m \in MsgIds : HasVector(scope, m) }
  /\ IF totalCount' = 0
       THEN /\ cpc' = "idle"
            /\ returned' = "null"
            /\ runs' = runs + 1
       ELSE /\ cpc' = "paging"
            /\ UNCHANGED << returned, runs >>
  /\ UNCHANGED << scope, centroid, outsideCentroid >>

\* one iteration of the while loop
CentroidPage ==
  /\ cpc = "paging"
  /\ LET page == PageOf(scope, lastMessageId)
         got == Accumulated(scope, page)
     IN  IF page = {}
           THEN /\ cpc' = "computed"
                /\ UNCHANGED << processedCount, lastMessageId, sum, retrieved, summed >>
           ELSE /\ sum' = AddTo(sum, SumOf(VectorsOf(scope, got)))
                /\ processedCount' = processedCount + Len(got)
                /\ lastMessageId' = SortedSeq(page)[Cardinality(page)]
                /\ retrieved' = retrieved \o VectorsOf(scope, got)
                /\ summed' = summed \o got
                /\ cpc' = IF processedCount' < totalCount THEN "paging" ELSE "computed"
  /\ UNCHANGED << scope, centroid, totalCount, atStart, returned, runs, outsideCentroid >>

\* the end of computeSessionCentroid and the rest of updateSessionCentroid
CentroidUpdate ==
  /\ cpc = "computed"
  /\ IF processedCount = 0
       THEN /\ returned' = "null"
            /\ UNCHANGED centroid
       ELSE /\ returned' = "value"
            /\ centroid' = [vector |-> normalizeVector(Mean(sum, processedCount)),
                            count |-> CentroidCount,
                            at |-> runs + 1]
  /\ cpc' = "idle"
  /\ runs' = runs + 1
  /\ UNCHANGED << scope, totalCount, processedCount, lastMessageId, sum, retrieved,
                  summed, atStart, outsideCentroid >>

\* the message path records the embedding of another message of the session while
\* the centroid is being computed
EmbeddingInserted ==
  /\ cpc = "paging"
  /\ \E m \in MsgIds, v \in StoredVectors :
       /\ scope[m].long
       /\ ~ scope[m].row
       /\ scope' = [scope EXCEPT ![m] = [long |-> TRUE, row |-> TRUE, vec |-> v]]
  /\ UNCHANGED << centroid, cpc, totalCount, processedCount, lastMessageId, sum,
                  retrieved, summed, atStart, returned, runs, outsideCentroid >>

\* the maintenance script that deletes the zero vectors and their rows
findZeroVectors ==
  /\ cpc = "idle"
  /\ LET zeroVectorIds == { m \in MsgIds : scope[m].row /\ scope[m].vec = Zero }
     IN  /\ zeroVectorIds # {}
         /\ scope' = [m \in MsgIds |->
                        IF m \in zeroVectorIds
                          THEN [long |-> scope[m].long, row |-> FALSE, vec |-> Missing]
                          ELSE scope[m]]
  /\ UNCHANGED << centroid, cpc, totalCount, processedCount, lastMessageId, sum,
                  retrieved, summed, atStart, returned, runs, outsideCentroid >>

\* a message of the session as the centroid queries see it: too short to be
\* embedded, not yet embedded, or embedded, with or without its vector in the store
ScopeRows ==
  { [long |-> FALSE, row |-> FALSE, vec |-> Missing],
    [long |-> TRUE, row |-> FALSE, vec |-> Missing] }
  \cup { [long |-> TRUE, row |-> TRUE, vec |-> v] : v \in StoredVectors \cup { Missing } }

CentroidInit ==
  /\ messages = [m \in MsgIds |-> Plain]
  /\ LoopIdle
  /\ sessions = [s \in SessIds |-> NewSession("cursor")]
  /\ AggIdle
  /\ scope \in [MsgIds -> ScopeRows]
  /\ CentroidIdle
  /\ SearchIdle
  /\ AuxIdle
  /\ PlainQuery
  /\ AllVisible
  /\ crashed = {}
  /\ batchSize = BatchSize

CentroidNext ==
  \/ CentroidStart
  \/ CentroidPage
  \/ CentroidUpdate
  \/ EmbeddingInserted
  \/ findZeroVectors

CentroidSpec == CentroidInit /\ [][CentroidNext]_vars

(* ---------------- the query composer ---------------- *)
\* UNLIKE_DAMPENING, in tenths
UNLIKE_DAMPENING == 2

\* the composer's numbers are held in hundredths: a weight is held in tenths, and so
\* is the dampening
Hundredths(v) == [k \in 1..Len(v) |-> 100 * v[k]]

subtractVectors(a, b) == [k \in 1..Len(a) |-> a[k] - b[k]]

addVectors(a, b) == [k \in 1..Len(a) |-> a[k] + b[k]]

scaleVector(vector, scalar) == [k \in 1..Len(vector) |-> vector[k] * scalar]

\* scaleVector(centroid, weight)
LikeTerm(e) == scaleVector(e.centroid, e.weight * 10)

\* the term of a negative exemplar without the dampening
UnlikeTermUndamped(e) == scaleVector(e.centroid, e.weight * 10)

\* scaleVector(centroid, weight * UNLIKE_DAMPENING)
UnlikeTerm(e) == scaleVector(e.centroid, e.weight * UNLIKE_DAMPENING)

\* the additions and subtractions of one for loop, as [add, v] steps
LikeSteps(list) == [i \in 1..Len(list) |-> [add |-> TRUE, v |-> LikeTerm(list[i])]]
UnlikeSteps(list) == [i \in 1..Len(list) |-> [add |-> FALSE, v |-> UnlikeTerm(list[i])]]

\* the exemplars of the request: none when the caller named none
Exemplars(in, p, field) == IF p.centroids THEN in[field] ELSE << >>

\* the steps for the negative query text subtracted at the strength of the
\* dampening
NegativeStepsDamped(in) ==
  IF in.n = Missing THEN << >>
  ELSE << [add |-> FALSE, v |-> scaleVector(in.n, 10 * UNLIKE_DAMPENING)] >>

\* if (negativeQuery) vec = subtractVectors(vec, await getQueryEmbedding(negativeQuery))
NegativeSteps(in) ==
  IF in.n = Missing THEN << >> ELSE << [add |-> FALSE, v |-> Hundredths(in.n)] >>

\* the steps of composeQueryVector in the order of its statements
Steps(in, p) ==
  NegativeSteps(in)
    \o LikeSteps(Exemplars(in, p, "likeSession"))
    \o UnlikeSteps(Exemplars(in, p, "unlikeSession"))
    \o LikeSteps(Exemplars(in, p, "likeProject"))
    \o UnlikeSteps(Exemplars(in, p, "unlikeProject"))

\* vec after the steps; addVectors and subtractVectors throw when the dimensions of
\* their arguments differ
RECURSIVE ApplySteps(_, _)
ApplySteps(vec, steps) ==
  IF steps = << >> THEN [threw |-> FALSE, vec |-> vec]
  ELSE IF Len(vec) # Len(Head(steps).v) THEN [threw |-> TRUE, vec |-> Missing]
  ELSE ApplySteps(IF Head(steps).add THEN addVectors(vec, Head(steps).v)
                                     ELSE subtractVectors(vec, Head(steps).v),
                  Tail(steps))

\* queryText ? await getQueryEmbedding(queryText) : new Array(1024).fill(0)
StartVector(in, p) == IF p.query THEN Hundredths(in.q) ELSE Zero

composeQueryVector(in, p) ==
  LET out == ApplySteps(StartVector(in, p), Steps(in, p))
  IN  IF out.threw THEN [threw |-> TRUE, vec |-> NoEmbedding]
      ELSE [threw |-> FALSE,
            vec |-> normalizeVector([num |-> out.vec, den2 |-> 100 * 100])]

\* a vector of another dimension than the store's
Short == [k \in 1..(Dim - 1) |-> 1]

\* weights of exemplars, in tenths
Weights == {5, 10}

\* resolved exemplars: at most one centroid per list
ExemplarLists ==
  { << >> } \cup { << [centroid |-> c, weight |-> w] >> :
                   c \in { Unit(1, 1), Unit(Dim, 1) }, w \in Weights }

\* the answers to a request: the embedding of the query text, that of the negative
\* query text (Missing when the caller gave none), and the centroids behind the
\* exemplars
Inputs ==
  [q : { Unit(1, 1), Unit(Dim, 1) },
   n : { Missing, Unit(1, 1), Short },
   likeSession : ExemplarLists, unlikeSession : ExemplarLists,
   likeProject : ExemplarLists, unlikeProject : ExemplarLists]

(* ---------------- parseWeightedIds, resolveCentroids ---------------- *)
\* an item of an exemplar parameter: its identifier is empty, a word, or the
\* number of a scope; its weight is in tenths (1.0 when the item carries none)
WrittenIds ==
  { [kind |-> "empty", n |-> 1], [kind |-> "word", n |-> 1] }
    \cup { [kind |-> "number", n |-> k] : k \in ScopeIds }

WrittenItems == [id : WrittenIds, weight : Weights]

\* .filter((item) => item.id.length > 0)
parseWeightedIds(items) == SelectSeq(items, LAMBDA it : it.id.kind # "empty")

\* variant of Found that takes whatever the row holds, a missing centroid included
FoundAlways(tbl, it) == << [id |-> it.id, weight |-> it.weight, centroid |-> tbl[it.id.n]] >>

\* one turn of the for loop of resolveCentroids: nothing for an identifier that is
\* no number or has no stored centroid
Found(tbl, it) ==
  IF it.id.kind # "number" THEN << >>
  ELSE IF tbl[it.id.n] = Missing THEN << >>
  ELSE << [id |-> it.id, weight |-> it.weight, centroid |-> tbl[it.id.n]] >>

RECURSIVE resolveCentroids(_, _)
resolveCentroids(tbl, weightedIds) ==
  IF weightedIds = << >> THEN << >>
  ELSE Found(tbl, Head(weightedIds)) \o resolveCentroids(tbl, Tail(weightedIds))

ExemplarFields == {"likeSession", "unlikeSession", "likeProject", "unlikeProject"}

\* the request composeQueryVector gets: the query text and the resolved exemplars
\* of the one parameter the caller used
ResolvedInput(field, list) ==
  [q |-> Unit(1, 1), n |-> Missing,
   likeSession |-> IF field = "likeSession" THEN list ELSE << >>,
   unlikeSession |-> IF field = "unlikeSession" THEN list ELSE << >>,
   likeProject |-> IF field = "likeProject" THEN list ELSE << >>,
   unlikeProject |-> IF field = "unlikeProject" THEN list ELSE << >>]

QueryAndCentroids == [mode |-> "hybrid", query |-> TRUE, centroids |-> TRUE]

\* lines 210-216 of search: the identifiers of a parameter are parsed and resolved
Resolve ==
  /\ rpc = "idle"
  /\ rtable' \in [ScopeIds -> { Missing, Unit(1, 1), Unit(Dim, 1) }]
  /\ rfield' \in ExemplarFields
  /\ wanted' \in UNION { [1..k -> WrittenItems] : k \in 1..MaxWanted }
  /\ resolved' = resolveCentroids(rtable', parseWeightedIds(wanted'))
  /\ rout' = NoOutput
  /\ rpc' = "resolved"
  /\ UNCHANGED outsideResolve

\* lines 229-233 of search: the query vector from the query and what was resolved
ResolveCompose ==
  /\ rpc = "resolved"
  /\ rout' = composeQueryVector(ResolvedInput(rfield, resolved), QueryAndCentroids)
  /\ rpc' = IF rout'.threw THEN "threw" ELSE "composed"
  /\ UNCHANGED << rtable, rfield, wanted, resolved >>
  /\ UNCHANGED outsideResolve

\* the search is over
ResolveReturn ==
  /\ rpc \in {"composed", "threw"}
  /\ rpc' = "idle"
  /\ rtable' = [s \in ScopeIds |-> Missing]
  /\ rfield' = "likeSession"
  /\ wanted' = << >>
  /\ resolved' = << >>
  /\ rout' = NoOutput
  /\ UNCHANGED outsideResolve

ResolveInit ==
  /\ messages = [m \in MsgIds |-> Plain]
  /\ LoopIdle
  /\ sessions = [s \in SessIds |-> NewSession("cursor")]
  /\ AggIdle
  /\ NoScope
  /\ CentroidIdle
  /\ SearchIdle
  /\ AuxIdle
  /\ PlainQuery
  /\ AllVisible
  /\ crashed = {}
  /\ batchSize = BatchSize

ResolveNext ==
  \/ Resolve
  \/ ResolveCompose
  \/ ResolveReturn

ResolveSpec == ResolveInit /\ [][ResolveNext]_vars

(* ---------------- search ---------------- *)
Modes == {"semantic", "text", "hybrid"}

\* 1 - distance, or ts_rank, with the project bonus; the distance of the vector
\* store is a cosine distance, between 0 and 2
Scores == {-1, 0, 1}

\* the ranking strategies in the order search runs them
Strategies == << "sessions", "messages", "lexical" >>

Order(by) == CHOOSE i \in 1..Len(Strategies) : Strategies[i] = by

\* a SearchResult: by stands for the fields that tell which strategy built it
toResult(id, score, by) == [session_id |-> id, score |-> score, by |-> by]

\* a hit of a similarity query, resolved to its session
Hits == [id : SessIds, score : Scores]

\* the lists of at most n hits
HitLists(n) == UNION { [1..k -> Hits] : k \in 0..n }

\* the lists that name no session twice
Distinct(list) == \A i, j \in 1..Len(list) : list[i].id = list[j].id => i = j

\* the nearest hit comes first
Descending(list) == \A i, j \in 1..Len(list) : i < j => list[i].score >= list[j].score

\* the scores of the hits of session id that the first loop over messageHits keeps
KeptScores(hits, seen, passing, id) ==
  { hits[i].score : i \in { j \in 1..Len(hits) :
                              hits[j].id = id /\ id \in passing /\ id \notin seen } }

\* the highest score of each session that has a kept hit
TopScores(hits, seen, passing) ==
  [id \in { x \in SessIds : KeptScores(hits, seen, passing, x) # {} } |->
     CHOOSE top \in KeptScores(hits, seen, passing, id) :
       \A sc \in KeptScores(hits, seen, passing, id) : sc <= top]

\* addResult without its guard
addResultAlways(st, r) ==
  [results |-> Append(st.results, r), seen |-> st.seen \cup { r.session_id }]

\* addResult on st = [results, seen]
addResult(st, r) ==
  IF r.session_id \in st.seen
    THEN st
    ELSE [results |-> Append(st.results, r), seen |-> st.seen \cup { r.session_id }]

\* addResult for each of rs in turn
RECURSIVE addResults(_, _)
addResults(st, rs) ==
  IF rs = << >> THEN st ELSE addResults(addResult(st, Head(rs)), Tail(rs))

\* a session as a search with filters sees it: live and passing every filter, soft
\* deleted, of another source than params.source, started before params.since, of
\* another project than those of params.cwd with params.projectOnly, or with
\* params.excludeTerms in each of its messages
SessionKinds == {"ok", "deleted", "other_source", "old", "other_project", "has_term"}

\* SESSION_QUERY: s.deleted_at IS NULL
Live(cat) == { id \in SessIds : cat[id] # "deleted" }

passesFilters(kind) == kind \notin {"other_source", "old", "other_project"}

\* the sessions the semantic strategies keep: if (!session) continue, then
\* if (!passesFilters(...)) continue
SemanticVisible(cat) == { id \in Live(cat) : passesFilters(cat[id]) }

\* the sessions the conditions of the lexical query keep
LexicalVisible(cat) == { id \in SessIds : cat[id] = "ok" }

\* the hits of sessions that exist and pass the filters, as results of strategy by
Passing(hits, passing, by) ==
  LET kept == SelectSeq(hits, LAMBDA h : h.id \in passing)
  IN  [i \in 1..Len(kept) |-> toResult(kept[i].id, kept[i].score, by)]

\* the first loop over messageHits: bestBySession in insertion order
RECURSIVE bestBySession(_, _, _, _)
bestBySession(hits, seen, passing, best) ==
  IF hits = << >> THEN best
  ELSE LET h == Head(hits)
           at == { i \in 1..Len(best) : best[i].id = h.id }
       IN  IF h.id \notin passing \/ h.id \in seen
             THEN bestBySession(Tail(hits), seen, passing, best)
           ELSE IF at = {}
             THEN bestBySession(Tail(hits), seen, passing, Append(best, h))
           ELSE LET i == CHOOSE i \in at : TRUE
                IN  IF best[i].score = 0 \/ h.score > best[i].score
                      THEN bestBySession(Tail(hits), seen, passing,
                                         [best EXCEPT ![i] = h])
                      ELSE bestBySession(Tail(hits), seen, passing, best)

\* results.sort((a, b) => b.score - a.score), a stable sort
RECURSIVE SortByScore(_)
SortByScore(rs) ==
  IF rs = << >> THEN << >>
  ELSE LET rest == SortByScore(Tail(rs))
           k == Cardinality({ i \in 1..Len(rest) : rest[i].score > Head(rs).score })
       IN  SubSeq(rest, 1, k) \o << Head(rs) >> \o SubSeq(rest, k + 1, Len(rest))

\* results.slice(0, limit)
Slice(rs, limit) == SubSeq(rs, 1, IF Len(rs) < limit THEN Len(rs) ELSE limit)

\* search up to the strategies
SearchStart ==
  /\ spc = "idle"
  /\ params' \in [mode : Modes, query : BOOLEAN, centroids : BOOLEAN]
  /\ results' = << >>
  /\ seenSessionIds' = {}
  /\ offered' = {}
  /\ answer' = << >>
  /\ embedding' = NoEmbedding
  /\ topScore' = NoScores
  /\ spc' = IF ~ params'.query /\ ~ params'.centroids THEN "threw"
            ELSE IF params'.mode \in {"semantic", "hybrid"} THEN "compose"
            ELSE "lexical"
  /\ UNCHANGED outsideSearch

\* the start of the semantic block: the query vector is composed inside the try
\* block, so an error of the composer or of the embedding endpoint is logged and the
\* search goes on with the lexical strategy
Compose ==
  /\ spc = "compose"
  /\ LET out == composeQueryVector(qin, params)
     IN  \/ /\ ~ out.threw
            /\ embedding' = out.vec
            /\ spc' = "sessions"
         \/ /\ out.threw \/ params.query \/ qin.n # Missing
            /\ embedding' = NoEmbedding
            /\ spc' = "lexical"
  /\ UNCHANGED << params, results, seenSessionIds, offered, answer, topScore,
                  outsideSearch >>

\* the strategy over session vectors; querySimilar may throw
SessionPass ==
  /\ spc = "sessions"
  /\ \/ /\ spc' = "lexical"
        /\ UNCHANGED << results, seenSessionIds, offered >>
     \/ \E sessionHits \in HitLists(MaxSess) :
          LET handed == Passing(sessionHits, SemanticVisible(catalog), "sessions")
              st == addResults([results |-> results, seen |-> seenSessionIds], handed)
          IN  /\ Distinct(sessionHits)
              /\ Descending(sessionHits)
              /\ results' = st.results
              /\ seenSessionIds' = st.seen
              /\ offered' = offered \cup Range(handed)
              /\ spc' = "messages"
  /\ UNCHANGED << params, answer, embedding, topScore, outsideSearch >>

\* the strategy over message vectors; querySimilar may throw
MessagePass ==
  /\ spc = "messages"
  /\ \/ /\ spc' = "lexical"
        /\ UNCHANGED << results, seenSessionIds, offered, topScore >>
     \/ \E messageHits \in HitLists(MaxHits) :
          LET best == bestBySession(messageHits, seenSessionIds,
                                    SemanticVisible(catalog), << >>)
              handed == Passing(best, Live(catalog), "messages")
              st == addResults([results |-> results, seen |-> seenSessionIds], handed)
          IN  /\ Descending(messageHits)
              /\ results' = st.results
              /\ seenSessionIds' = st.seen
              /\ offered' = offered \cup Range(handed)
              /\ topScore' = TopScores(messageHits, seenSessionIds,
                                       SemanticVisible(catalog))
              /\ spc' = "lexical"
  /\ UNCHANGED << params, answer, embedding, outsideSearch >>

\* the lexical strategy: one row per session; the query is awaited outside any try
\* block, so its failure is the failure of search
LexicalPass ==
  /\ spc = "lexical"
  /\ IF params.mode \in {"text", "hybrid"} /\ params.query
       THEN \/ \E rows \in HitLists(MaxSess) :
                 LET handed == Passing(rows, LexicalVisible(catalog), "lexical")
                     st == addResults([results |-> results, seen |-> seenSessionIds],
                                      handed)
                 IN  /\ Distinct(rows)
                     /\ Descending(rows)
                     /\ results' = st.results
                     /\ seenSessionIds' = st.seen
                     /\ offered' = offered \cup Range(handed)
                     /\ spc' = "sort"
            \/ /\ spc' = "threw"
               /\ UNCHANGED << results, seenSessionIds, offered >>
       ELSE /\ spc' = "sort"
            /\ UNCHANGED << results, seenSessionIds, offered >>
  /\ UNCHANGED << params, answer, embedding, topScore, outsideSearch >>

\* the sort and the slice
SearchReturn ==
  /\ spc = "sort"
  /\ \E limit \in 1..MaxSess :
       answer' = Slice(SortByScore(results), limit)
  /\ spc' = "returned"
  /\ UNCHANGED << params, results, seenSessionIds, offered, embedding, topScore,
                  outsideSearch >>

SearchInit ==
  /\ messages = [m \in MsgIds |-> Plain]
  /\ LoopIdle
  /\ sessions = [s \in SessIds |-> NewSession("cursor")]
  /\ AggIdle
  /\ NoScope
  /\ CentroidIdle
  /\ SearchIdle
  /\ AuxIdle
  /\ PlainQuery
  /\ catalog \in { [s \in SessIds |-> IF s = 1 THEN k ELSE "ok"] : k \in {"ok", "old"} }
  /\ crashed = {}
  /\ batchSize = BatchSize

SearchNext ==
  \/ SearchStart
  \/ Compose
  \/ SessionPass
  \/ MessagePass
  \/ LexicalPass
  \/ SearchReturn

SearchSpec == SearchInit /\ [][SearchNext]_vars

\* searches of a caller who supplies filters, over sessions the first of which may
\* fail one of them
FilterInit ==
  /\ messages = [m \in MsgIds |-> Plain]
  /\ LoopIdle
  /\ sessions = [s \in SessIds |-> NewSession("cursor")]
  /\ AggIdle
  /\ NoScope
  /\ CentroidIdle
  /\ SearchIdle
  /\ AuxIdle
  /\ PlainQuery
  /\ catalog \in { [s \in SessIds |-> IF s = 1 THEN k ELSE "ok"] : k \in SessionKinds }
  /\ crashed = {}
  /\ batchSize = BatchSize

FilterSpec == FilterInit /\ [][SearchNext]_vars

\* the requests of a search up to its query vector
ComposeInit ==
  /\ messages = [m \in MsgIds |-> Plain]
  /\ LoopIdle
  /\ sessions = [s \in SessIds |-> NewSession("cursor")]
  /\ AggIdle
  /\ NoScope
  /\ CentroidIdle
  /\ SearchIdle
  /\ AuxIdle
  /\ qin \in Inputs
  /\ AllVisible
  /\ crashed = {}
  /\ batchSize = BatchSize

ComposeNext ==
  \/ SearchStart
  \/ Compose

ComposeSpec == ComposeInit /\ [][ComposeNext]_vars

Next ==
  \/ Tick
  \/ StartRun
  \/ Fetch
  \/ Prepare
  \/ generateEmbeddings
  \/ generateEmbeddingsWithFallback
  \/ Record
  \/ Cleanup
  \/ Return

Spec == Init /\ [][Next]_vars

(* ---------------- a second run of the loop, overlapping the first ---------------- *)
\* Every write of generatePendingEmbeddings is one SQL statement of its own, so a
\* second run shows to the first as single statements between its steps. The two
\* runs meet on the messages that both fetched: the batch this run is working on.

\* markUnembeddable of the second run for a message whose embedding it found null
OtherRunMarks ==
  /\ pc # "idle"
  /\ \E m \in selected :
       /\ RetryCount(embeddings, m) < RetryLimit
       /\ embeddings' = markUnembeddable(embeddings, m, "nan")
  /\ UNCHANGED << messages, chroma, pc, batch, texts, result,
                  chain, marked, recorded, selected, surfaced, last, cleaned >>
  /\ UNCHANGED outsideLoop

\* the two upserts of the second run for one message it embedded
OtherRunUpserts ==
  /\ pc # "idle"
  /\ \E m \in selected :
       /\ chroma' = [chroma EXCEPT ![m] = "vec"]
       /\ embeddings' = upsertRecord(embeddings, m, Length(messages[m].text))
  /\ UNCHANGED << messages, pc, batch, texts, result,
                  chain, marked, recorded, selected, surfaced, last, cleaned >>
  /\ UNCHANGED outsideLoop

\* the cleanup pass of the second run
OtherRunCleans ==
  /\ pc # "idle"
  /\ Orphans(embeddings) # {}
  /\ embeddings' = embeddings \ Orphans(embeddings)
  /\ UNCHANGED << messages, chroma, pc, batch, texts, result,
                  chain, marked, recorded, selected, surfaced, last, cleaned >>
  /\ UNCHANGED outsideLoop

\* the runs of the first process within one day, and the statements of the second;
\* no ordinary message has an empty text
OverlapNext ==
  \/ StartRun
  \/ Fetch
  \/ Prepare
  \/ EmbedBatchOk
  \/ EmbedBatchNaN
  \/ EmbedBatchThrows
  \/ generateEmbeddingsWithFallback
  \/ Record
  \/ Cleanup
  \/ Return
  \/ OtherRunMarks
  \/ OtherRunUpserts
  \/ OtherRunCleans

\* the overlap is looked at over ordinary messages
OverlapInit ==
  /\ messages = [m \in MsgIds |-> Plain]
  /\ LoopIdle
  /\ sessions = [s \in SessIds |-> NewSession("cursor")]
  /\ AggIdle
  /\ NoScope
  /\ CentroidIdle
  /\ SearchIdle
  /\ AuxIdle
  /\ PlainQuery
  /\ AllVisible
  /\ crashed = {}
  /\ batchSize = BatchSize

OverlapSpec == OverlapInit /\ [][OverlapNext]_vars

\* the message path over ordinary messages, the first of them possibly a long one,
\* with a crash between the two writes
LongMessage == [text |-> Text(9000, 0, FALSE), role |-> "assistant"]

CrashInit ==
  /\ messages \in { [m \in MsgIds |-> IF m <= k THEN LongMessage ELSE Plain] : k \in 0..1 }
  /\ LoopIdle
  /\ sessions = [s \in SessIds |-> NewSession("cursor")]
  /\ AggIdle
  /\ NoScope
  /\ CentroidIdle
  /\ SearchIdle
  /\ AuxIdle
  /\ PlainQuery
  /\ AllVisible
  /\ crashed = {}
  /\ batchSize = BatchSize

\* the runs before and after the crash, within one day
CrashNext ==
  \/ StartRun
  \/ Fetch
  \/ Prepare
  \/ generateEmbeddings
  \/ generateEmbeddingsWithFallback
  \/ Record
  \/ CrashAfterUpsert
  \/ Cleanup
  \/ Return

CrashSpec == CrashInit /\ [][CrashNext]_vars

\* the message path of a process configured with a smaller batch size, so that a
\* page of the candidate query can be filled by noise alone
PageInit ==
  /\ messages \in Layouts
  /\ LoopIdle
  /\ sessions = [s \in SessIds |-> NewSession("cursor")]
  /\ AggIdle
  /\ NoScope
  /\ CentroidIdle
  /\ SearchIdle
  /\ AuxIdle
  /\ PlainQuery
  /\ AllVisible
  /\ crashed = {}
  /\ batchSize = BatchSize - 1

PageSpec == PageInit /\ [][Next]_vars

\* the run is scheduled: every enabled step of the loop is eventually taken; and the
\* services do not fail forever: a summarization, a batch embedding and a store
\* write that are tried again and again eventually succeed
FairSpec ==
  /\ Spec
  /\ WF_vars(Next)
  /\ SF_vars(Prepare /\ pc' = "embed")
  /\ SF_vars(EmbedBatchOk)
  /\ SF_vars(Record /\ last' = "recorded")

(* ======================================================================= *)
(* Properties                                                              *)
(* ======================================================================= *)
Success(m) == HasRow(embeddings, m, MESSAGES)
Failure(m) == HasRow(embeddings, m, UNEMBEDDABLE)
NanRows(m) == { r \in RowsOf(embeddings, m, UNEMBEDDABLE) : r.failure_reason = "nan" }
Pending(m) == IsCandidate(messages, embeddings, m)

\* C1: every run of generatePendingEmbeddings terminates: a run that has entered
\* its loop eventually reaches its return, batch-level exceptions included.
C1_RunTerminates ==
  (pc = "fetch") ~> (pc = "done")

\* C2: after a batch was aborted by an exception, every candidate that was not part
\* of that batch is eventually fetched and gets its success or failure record.
C2_OthersStillProcessed ==
  \A m \in MsgIds :
    (last = "aborted" /\ Pending(m) /\ m \notin selected) ~> (Success(m) \/ Failure(m))

\* C3: no vector with a non-finite component is ever upserted into the vector
\* store or recorded as a successful embedding.
C3_NoNonFiniteStored ==
  \A m \in MsgIds : chroma[m] # "nonfinite"

\* C4: a message with a nan failure record (and no success record) is a candidate
\* if and only if retry_count < 3 and more than 7 days have passed since updated_at;
\* retry_count = 3 is never eligible, retry_count = 1 at 8 days is, at 1 day is not;
\* and every message with a nan record that a fetch returns satisfies the predicate.
C4_Eligibility ==
  /\ \A m \in MsgIds : \A r \in NanRows(m) :
       ~ Success(m) =>
         /\ (m \in Candidates(messages, embeddings)) <=> (r.retry_count < 3 /\ r.age > 7)
         /\ r.retry_count = 3 => m \notin Candidates(messages, embeddings)
         /\ (r.retry_count = 1 /\ r.age = 8) => m \in Candidates(messages, embeddings)
         /\ (r.retry_count = 1 /\ r.age = 1) => m \notin Candidates(messages, embeddings)
  /\ pc = "prepare" =>
       \A m \in selected : \A r \in NanRows(m) : r.retry_count < 3 /\ r.age > 7

\* a message that failed once with NaN 8 days ago is offered again
C4_Witness ==
  /\ pc = "prepare"
  /\ \E m \in selected : \E r \in NanRows(m) : r.retry_count = 1 /\ r.age = 8

\* C5: once its empty-after-sanitization error has been surfaced, a message is
\* never handed to the embedding client again.
C5_EmptyNotRetried ==
  ~ (pc = "embed" /\ Range(batch) \cap surfaced # {})

\* C6: a timeout or connection error never causes a failure record to be written.
C6_TransientNeverRecorded ==
  \A m \in marked : \A i \in DOMAIN chain[m] : chain[m][i][2] # "transient"

\* C8: a nan failure is recorded only after raw batch, per-item, summarized and
\* rephrased embedding were attempted in that order and each gave a non-finite result.
FullChain ==
  << << "raw", "nan" >>, << "item", "nan" >>, << "summarized", "nan" >>, << "rephrased", "nan" >> >>

C8_FourStagesBeforeNaN ==
  \A m \in marked : chain[m] = FullChain

\* C7: an iteration whose fallback exhausted for some item marks exactly the items
\* that came back without a vector, embeds and records every other item of the
\* batch in the same iteration, and the rephrase stage never aborts the batch.
C7_IterationRecorded ==
  last = "recorded" =>
    /\ marked \cup recorded = selected
    /\ marked \cap recorded = {}
    /\ \A m \in marked : NanRows(m) # {} /\ ~ Success(m)
    /\ \A m \in recorded : Success(m) /\ chroma[m] # "absent"
    /\ \A m \in selected : chain[m] = FullChain => m \in marked

C7_NoAbortForBadItem ==
  pc \in {"fb_reph", "fb_rephembed"} => pc' \in {"fb_rephembed", "fb_item", "record"}

C10_Step ==
  \A m \in MsgIds :
    /\ (~ Pending(m) /\ Pending(m)') =>
         /\ NanRows(m) # {}
         /\ \A r \in NanRows(m)' : r.retry_count < 3 /\ r.age > 7
    /\ Success(m) =>
         /\ Success(m)'
         /\ chroma'[m] = chroma[m]
         /\ (selected' # selected => m \notin selected')
         /\ m \notin marked'
         /\ \A r \in RowsOf(embeddings, m, UNEMBEDDABLE)' :
              \E q \in RowsOf(embeddings, m, UNEMBEDDABLE) :
                /\ q.failure_reason = r.failure_reason
                /\ q.retry_count = r.retry_count
                /\ r.age \in {q.age, q.age + 1}

NoiseRows(m) == { r \in RowsOf(embeddings, m, UNEMBEDDABLE) : r.failure_reason = "noise" }

C11_NoiseExcluded ==
  \A m \in MsgIds : NoiseRows(m) # {} =>
    /\ m \notin Candidates(messages, embeddings)
    /\ \A rc \in 0..RetryLimit : \A a \in 0..MaxAge :
         m \notin Candidates(messages,
                             (embeddings \ RowsOf(embeddings, m, UNEMBEDDABLE))
                               \cup { Row(m, UNEMBEDDABLE, "noise", rc, a, 0) })
    /\ (pc \in {"prepare", "cleanup"} => m \notin selected)

C11_NoiseStays ==
  \A m \in MsgIds : NoiseRows(m) # {} => NoiseRows(m)' # {}

C11_NoisePermanent == [] C11_NoiseExcluded /\ [][C11_NoiseStays]_vars

\* a fetch has run while a noise record was older than the cooldown
C11_Witness ==
  /\ pc \in {"prepare", "cleanup"}
  /\ \E m \in MsgIds : \E r \in NoiseRows(m) : r.age > CooldownDays /\ m \notin selected

\* C12: a run of the production loop that starts when no content was added since
\* the previous completed run writes nothing to the relational store or the
\* vector store (here: the session aggregate path).
C12_RerunWritesNothing ==
  rerun => aggWrites = 0

\* C15: when a run of the aggregate path has ended without an error, the vector of
\* every embedded session was made from the session's current content: content
\* added to an embedded session has been followed by a re-embed.
C15_GrowthReembedded ==
  (aggpc = "done" /\ ~ aggFailed) =>
    \A s \in SessIds : sessChroma[s] # NoVector => sessChroma[s].raw = sessions[s].raw

Embeddable(m) ==
  /\ Length(messages[m].text) > MinSqlLen
  /\ messages[m].role # "tool"
  /\ classifyNoise(messages[m].text) = "none"

C14_AllProcessedAtEnd ==
  pc \in {"cleanup", "done"} => \A m \in MsgIds : Embeddable(m) => Success(m) \/ Failure(m)

C14_EndsOnlyExhausted ==
  (pc = "fetch" /\ pc' = "cleanup") =>
    Cardinality(FirstK(Candidates(messages, embeddings), Overfetch(batchSize))) < Overfetch(batchSize)

C14_NoisePageContinues == [] C14_AllProcessedAtEnd /\ [][C14_EndsOnlyExhausted]_vars

\* the run has ended after a fetch whose full page was noise, and a message at a
\* higher id was embedded
C14_Witness ==
  /\ pc = "cleanup"
  /\ \E m \in MsgIds :
       /\ Success(m)
       /\ Cardinality({ n \in MsgIds : n < m /\ NoiseRows(n) # {} }) >= Overfetch(batchSize)


(* ---------------- centroids ---------------- *)
\* how many times the computation accumulated the vector of message m
TimesSummed(m) == Cardinality({ i \in 1..Len(summed) : summed[i] = m })

\* C16: when the loop of a centroid computation has ended, every message that had an
\* eligible vector at the start of the computation has had it summed exactly once,
\* whatever embeddings were inserted for the session meanwhile
C16_StartVectorsSummedOnce ==
  cpc = "computed" => \A m \in atStart : TimesSummed(m) = 1

\* C17: the centroid stored for a session, if any, has unit length; in particular it
\* is never the zero vector
C17_StoredCentroidIsUnit ==
  centroid # NoCentroid => IsUnit(centroid.vector)

\* C18: when a run has stored a centroid, the stored count is the number of vectors
\* retrieved from the vector store and summed, the stored vector is the normalized
\* mean of exactly those vectors, and if they are all one unit vector it is that vector
C18_CountAndMeanOfRetrieved ==
  (cpc = "idle" /\ returned = "value") =>
    /\ centroid.count = Len(retrieved)
    /\ centroid.vector = normalizeVector(Mean(SumOf(retrieved), Len(retrieved)))
    /\ \A v \in StoredVectors :
         (IsUnit(Exact(v)) /\ \A i \in 1..Len(retrieved) : retrieved[i] = v)
           => SameVector(centroid.vector, Exact(v))

\* a run has stored the centroid of two identical unit vectors, the session having a
\* third embedding whose vector the store did not return
C18_Witness ==
  /\ cpc = "idle"
  /\ returned = "value"
  /\ retrieved = << Unit(1, 1), Unit(1, 1) >>
  /\ totalCount > Len(retrieved)
  /\ centroid.count = 2

\* C19: after a run of the centroid service for a session, the centroid stored for
\* the session, if any, was written by that run
C19_NothingSurvivesARun ==
  (cpc = "idle" /\ runs > 0) => (centroid = NoCentroid \/ centroid.at = runs)

(* ---------------- search ---------------- *)
\* the entries of a list of results for session id
EntriesOf(rs, id) == { i \in 1..Len(rs) : rs[i].session_id = id }

\* the results the strategies handed over for session id
OfferedFor(id) == { r \in offered : r.session_id = id }

\* C20: no session appears twice in the results or in the returned list, and the
\* entry of a session is the one handed over by the first strategy, in the order
\* session vectors, message vectors, lexical, that produced the session; what the
\* search returns is made of these entries
C20_OncePerSessionFirstWins ==
  /\ \A id \in SessIds :
       /\ Cardinality(EntriesOf(results, id)) <= 1
       /\ Cardinality(EntriesOf(answer, id)) <= 1
       /\ OfferedFor(id) # {} =>
            \E i \in EntriesOf(results, id) :
              /\ results[i] \in OfferedFor(id)
              /\ \A r \in OfferedFor(id) : Order(results[i].by) <= Order(r.by)
  /\ Range(answer) \subseteq Range(results)

\* a returned list holds a session that the session vectors and the lexical
\* strategy both produced, with the entry of the session vectors
C20_Witness ==
  /\ spc = "returned"
  /\ \E id \in SessIds :
       /\ toResult(id, 0, "sessions") \in offered
       /\ toResult(id, 1, "lexical") \in offered
       /\ \E i \in EntriesOf(answer, id) : answer[i] = toResult(id, 0, "sessions")

\* C21: every session in the list a search returns passes every filter the caller
\* supplied: source, time since, project only and excluded terms
C21_ResultsPassFilters ==
  \A i \in 1..Len(answer) : catalog[answer[i].session_id] = "ok"

\* C22: a search fails as a whole only if the request is invalid or the one
\* strategy it enables has failed; when the lexical strategy fails after the
\* semantic strategies have produced results, the search still returns them
C22_FailedStrategyDegrades ==
  spc = "threw" => \/ ~ params.query /\ ~ params.centroids
                   \/ params.mode = "text"
                   \/ results = << >>

(* ---------------- the query vector ---------------- *)
\* the semantic block of a valid request has called the composer
Composed ==
  /\ spc \notin {"idle", "compose"}
  /\ params.query \/ params.centroids
  /\ params.mode \in {"semantic", "hybrid"}

\* C23: when two vectors the composer combines differ in dimension, the search ends
\* with an error
C23_MismatchAborts ==
  (Composed /\ composeQueryVector(qin, params).threw) => spc = "threw"

\* the sum of weight * factor * centroid over a list of exemplars, last one first
RECURSIVE Weighted(_, _)
Weighted(list, factor) ==
  IF list = << >> THEN Zero
  ELSE addVectors(Weighted(Tail(list), factor),
                  scaleVector(Head(list).centroid, Head(list).weight * factor))

\* q - n + sum(w * c_like) - sum(0.2 * w * c_unlike), in hundredths
Rocchio(q, n, likes, unlikes) ==
  subtractVectors(addVectors(subtractVectors(q, n), Weighted(likes, 10)),
                  Weighted(unlikes, UNLIKE_DAMPENING))

\* the negative query embedding of the formula: the zero vector when there is none
NegativeOf(in) == IF in.n = Missing THEN Zero ELSE Hundredths(in.n)

AsComposed(v) == normalizeVector([num |-> v, den2 |-> 100 * 100])

C26_QueryVectorIsUnit ==
  spc = "sessions" => IsUnit(embedding)

\* C27: a session that the message-vector pass added to the results has the
\* highest score among its message hits that pass the filters
C27_MessagePassKeepsMaximum ==
  \A i \in 1..Len(results) :
    results[i].by = "messages" =>
      /\ results[i].session_id \in DOMAIN topScore
      /\ results[i].score = topScore[results[i].session_id]

(* ---------------- a second run of the loop, batch by batch ---------------- *)
\* getMessagesToEmbed of the second run: the same query on the table as it is now
SecondRunFetches ==
  /\ otherBatch = {}
  /\ LET rows == QueryRows(messages, embeddings)
     IN /\ Kept(messages, rows) # {}
        /\ otherBatch' = Kept(messages, rows)
        /\ embeddings' = markAll(embeddings, Skipped(messages, rows), "noise")
  /\ UNCHANGED << messages, chroma, pc, batch, texts, result,
                  chain, marked, recorded, selected, surfaced, last, cleaned >>
  /\ UNCHANGED outsideSecond

\* the second run records its batch: the messages whose embedding came out null
\* are marked, the others are upserted
SecondRunRecords ==
  /\ otherBatch # {}
  /\ \E failed \in SUBSET otherBatch :
       /\ chroma' = [m \in MsgIds |-> IF m \in otherBatch \ failed THEN "vec" ELSE chroma[m]]
       /\ embeddings' = upsertAll(markAll(embeddings, failed, "nan"),
                                  otherBatch \ failed, messages)
  /\ otherBatch' = {}
  /\ UNCHANGED << messages, pc, batch, texts, result,
                  chain, marked, recorded, selected, surfaced, last, cleaned >>
  /\ UNCHANGED outsideSecond

\* one message that can be embedded, among messages of tools
HealInit ==
  /\ messages = [m \in MsgIds |-> IF m = 1 THEN Plain
                                  ELSE [text |-> Text(60, 0, FALSE), role |-> "tool"]]
  /\ LoopIdle
  /\ sessions = [s \in SessIds |-> NewSession("cursor")]
  /\ AggIdle
  /\ NoScope
  /\ CentroidIdle
  /\ SearchIdle
  /\ AuxIdle
  /\ PlainQuery
  /\ AllVisible
  /\ crashed = {}
  /\ batchSize = BatchSize

\* the loop over the days, and a second run that overlaps it
HealNext ==
  \/ Tick
  \/ StartRun
  \/ Fetch
  \/ Prepare
  \/ EmbedBatchOk
  \/ EmbedBatchNaN
  \/ EmbedBatchThrows
  \/ generateEmbeddingsWithFallback
  \/ Record
  \/ Cleanup
  \/ Return
  \/ SecondRunFetches
  \/ SecondRunRecords

HealSpec == HealInit /\ [][HealNext]_vars

(* ---------------- fetchWithRetry, attempt by attempt ---------------- *)
\* variant of ShouldRetry that retries after every error, whatever its kind
ShouldRetryAnyError(met, n) == met \in {"transient", "other"} /\ n < MaxRetries

\* (isTimeout || isConnectionError) && attempt < maxRetries
ShouldRetry(met, n) == met = "transient" /\ n < MaxRetries

\* fetch answered: a response, even one that carries an error of the model
IsResponse(met) == met \in {"ok", "nan_error", "nonfinite"}

\* the client calls fetchWithRetry for one request to the embed endpoint
FetchCall ==
  /\ fpc = "idle"
  /\ meets' \in [1..MaxRetries -> EmbedAnswers]
  /\ attempts' = 0
  /\ fpc' = "trying"
  /\ fout' = "none"
  /\ UNCHANGED outsideFetch

\* one turn of the for loop: the fetch, and the catch block when it throws
FetchAttempt ==
  /\ fpc = "trying"
  /\ attempts < MaxRetries
  /\ attempts' = attempts + 1
  /\ LET met == meets[attempts + 1]
     IN IF IsResponse(met)
          THEN fpc' = "returned" /\ fout' = met
          ELSE IF ShouldRetry(met, attempts + 1)
                 THEN fpc' = "trying" /\ fout' = fout
                 ELSE fpc' = "threw" /\ fout' = met
  /\ UNCHANGED meets
  /\ UNCHANGED outsideFetch

\* the caller has the response or the error
FetchDone ==
  /\ fpc \in {"returned", "threw"}
  /\ fpc' = "idle"
  /\ meets' = NoAttempts
  /\ attempts' = 0
  /\ fout' = "none"
  /\ UNCHANGED outsideFetch

FetchInit ==
  /\ messages = [m \in MsgIds |-> Plain]
  /\ LoopIdle
  /\ sessions = [s \in SessIds |-> NewSession("cursor")]
  /\ AggIdle
  /\ NoScope
  /\ CentroidIdle
  /\ SearchIdle
  /\ AuxIdle
  /\ PlainQuery
  /\ AllVisible
  /\ crashed = {}
  /\ batchSize = BatchSize

FetchNext ==
  \/ FetchCall
  \/ FetchAttempt
  \/ FetchDone

FetchSpec == FetchInit /\ [][FetchNext]_vars

(* ---------------- computeAllSessionCentroids, computeAllProjectCentroids ---------------- *)
\* what updateSessionCentroid / updateProjectCentroid of one scope can meet: a
\* centroid that is stored, no vector at all (nothing stored), an error while the
\* centroid is computed, an error of the UPDATE that stores it
Fates == {"value", "null", "compute_throws", "store_throws"}

\* variant of AfterCatch where the error leaves the loop
AfterCatchRethrown(q) == << >>

\* the catch block logs the error; the for loop goes on with the next scope
AfterCatch(q) == Tail(q)

\* the listing query and the start of the for loop
ListScopes(kind) ==
  /\ apc = "idle"
  /\ akind' = kind
  /\ \E rows \in SUBSET ScopeIds :
       /\ listed' = rows
       /\ aqueue' = SortedSeq(rows)
       /\ apc' = IF rows = {} THEN "done" ELSE "loop"
  /\ fate' \in [ScopeIds -> Fates]
  /\ attempted' = {}
  /\ storedScopes' = {}
  /\ UNCHANGED outsideAll

computeAllSessionCentroids == ListScopes("session")

computeAllProjectCentroids == ListScopes("project")

\* one turn of the for loop: the update of one scope inside try / catch
UpdateScope ==
  /\ apc = "loop"
  /\ LET s == Head(aqueue)
         rest == IF fate[s] \in {"compute_throws", "store_throws"}
                   THEN AfterCatch(aqueue) ELSE Tail(aqueue)
     IN /\ attempted' = attempted \cup {s}
        /\ storedScopes' = IF fate[s] = "value" THEN storedScopes \cup {s} ELSE storedScopes
        /\ aqueue' = rest
        /\ apc' = IF rest = << >> THEN "done" ELSE "loop"
  /\ UNCHANGED << akind, listed, fate >>
  /\ UNCHANGED outsideAll

\* the run over all scopes returns
AllReturn ==
  /\ apc = "done"
  /\ apc' = "idle"
  /\ listed' = {}
  /\ fate' = NoFate
  /\ attempted' = {}
  /\ storedScopes' = {}
  /\ UNCHANGED << akind, aqueue >>
  /\ UNCHANGED outsideAll

AllInit ==
  /\ messages = [m \in MsgIds |-> Plain]
  /\ LoopIdle
  /\ sessions = [s \in SessIds |-> NewSession("cursor")]
  /\ AggIdle
  /\ NoScope
  /\ CentroidIdle
  /\ SearchIdle
  /\ AuxIdle
  /\ PlainQuery
  /\ AllVisible
  /\ crashed = {}
  /\ batchSize = BatchSize

AllNext ==
  \/ computeAllSessionCentroids
  \/ computeAllProjectCentroids
  \/ UpdateScope
  \/ AllReturn

AllSpec == AllInit /\ [][AllNext]_vars

(* ---------------- failure records ---------------- *)
\* C28: a step that records a NaN failure of a message leaves it a failure record
\* whose retry_count is one more than before (1 for the first failure) and whose
\* updated_at is the time of the step; in every other step a failure record that
\* stays keeps its retry_count
C28_RetryCountStep ==
  [][\A m \in MsgIds :
       IF pc = "record" /\ m \in Failed
         THEN /\ HasRow(embeddings', m, UNEMBEDDABLE)
              /\ RetryCount(embeddings', m) = RetryCount(embeddings, m) + 1
              /\ \A r \in RowsOf(embeddings', m, UNEMBEDDABLE) :
                   r.age = 0 /\ r.failure_reason = "nan"
         ELSE HasRow(embeddings', m, UNEMBEDDABLE)
                => RetryCount(embeddings', m) = RetryCount(embeddings, m)]_vars

\* a message has just failed for the second time
C28_Witness ==
  \E m \in marked :
    /\ pc = "fetch"
    /\ RetryCount(embeddings, m) = 2
    /\ \A r \in RowsOf(embeddings, m, UNEMBEDDABLE) : r.age = 0

C30_OneRecordPerPair ==
  \A m \in MsgIds : \A coll \in {MESSAGES, UNEMBEDDABLE} :
    Cardinality(RowsOf(embeddings, m, coll)) <= 1

\* this run has just written the success record of a message whose failure record
\* was written again, for at least the second time, by the overlapping run
C30_Witness ==
  \E m \in recorded :
    /\ pc = "fetch"
    /\ HasRow(embeddings, m, MESSAGES)
    /\ \E r \in RowsOf(embeddings, m, UNEMBEDDABLE) : r.age = 0 /\ r.retry_count >= 2

\* C31: a request is attempted at most maxRetries times; an attempt after the
\* first follows only a timeout or connection error of the attempt before it; a
\* NaN error or any other error is what the caller gets, from the attempt that
\* met it, with no attempt after it.
C31_BoundedRetries ==
  [][/\ attempts' <= MaxRetries
     /\ (attempts' > attempts /\ attempts >= 1) =>
          /\ attempts' = attempts + 1
          /\ meets[attempts] = "transient"
     /\ (fpc = "trying" /\ fpc' # "trying") =>
          /\ fout' = meets[attempts']
          /\ fout' = fetchWithRetry(meets)
          /\ \A i \in 1..(attempts' - 1) : meets[i] = "transient"
     /\ (fpc = "trying" /\ meets[attempts + 1] \in {"nan_error", "other"}) =>
          /\ fpc' # "trying"
          /\ fout' = meets[attempts + 1]
     /\ fpc \in {"returned", "threw"} => attempts' <= attempts]_vars

\* a request ended with a NaN error at its second attempt, the first having timed out
C31_Witness ==
  /\ fpc = "returned"
  /\ attempts = 2
  /\ fout = "nan_error"
  /\ meets[1] = "transient"

\* C32: the embedding client hands back one entry per text of the batch, the
\* i-th entry being the outcome of the i-th text (null exactly for the messages
\* whose fallback chain ended in failure); the vector written under the key of a
\* message is the entry at that message's index, and a message whose entry is
\* null gets no vector.
C32_OneEntryPerTextInOrder ==
  [][/\ pc' = "record" =>
          /\ Len(result') = Len(batch')
          /\ Len(texts') = Len(batch')
          /\ \A i \in DOMAIN batch' :
               (result'[i] = "null") <=> (chain'[batch'[i]] # << >>)
     /\ (pc = "record" /\ pc' = "fetch" /\ last' = "recorded") =>
          \A i \in DOMAIN batch :
            IF result[i] = "null"
              THEN /\ chroma'[batch[i]] = chroma[batch[i]]
                   /\ batch[i] \in marked' /\ batch[i] \notin recorded'
              ELSE /\ chroma'[batch[i]] = result[i]
                   /\ batch[i] \in recorded' /\ batch[i] \notin marked']_vars

\* a batch was recorded whose first message got no vector on the fallback path
\* and whose second message got one
C32_Witness ==
  /\ pc = "fetch"
  /\ last = "recorded"
  /\ \E m \in marked : \E n \in recorded :
       m < n /\ chroma[m] = "absent" /\ chroma[n] = "vec"

\* C33: when a run over all scopes is over, the update of every listed scope has
\* been called, and every listed scope whose own update met no error has its
\* centroid stored, whatever the other scopes of the run met.
C33_FailureDoesNotBlockOthers ==
  apc = "done" =>
    /\ attempted = listed
    /\ storedScopes = { s \in listed : fate[s] = "value" }

\* a run is over in which the update of a scope threw and a later scope's centroid was stored
C33_Witness ==
  /\ apc = "done"
  /\ \E s \in listed : \E t \in storedScopes :
       s < t /\ fate[s] \in {"compute_throws", "store_throws"}

\* the items of the caller whose identifier is the number of a scope with a
\* stored centroid, each with that centroid
Resolvable(tbl, items) ==
  LET kept == SelectSeq(items, LAMBDA it : it.id.kind = "number" /\ tbl[it.id.n] # Missing)
  IN  [i \in DOMAIN kept |->
        [id |-> kept[i].id, weight |-> kept[i].weight, centroid |-> tbl[kept[i].id.n]]]

\* C34: resolving the identifiers of an exemplar parameter gives, in the caller's
\* order and with the caller's weights, the stored centroids of the identifiers
\* that have one and nothing for the others; composing the query vector from
\* the query and these exemplars raises no error.
C34_UnresolvedDropped ==
  rpc # "idle" =>
    /\ resolved = Resolvable(rtable, wanted)
    /\ rpc # "threw"
    /\ rpc = "composed" =>
         rout = composeQueryVector(ResolvedInput(rfield, Resolvable(rtable, wanted)),
                                   QueryAndCentroids)

\* a query vector was composed for a request that named a scope without a stored
\* centroid and, after it, a scope with one
C34_Witness ==
  /\ rpc = "composed"
  /\ Len(wanted) = 2
  /\ Len(resolved) = 1
  /\ wanted[1].id.kind = "number" /\ rtable[wanted[1].id.n] = Missing
  /\ resolved[1].id = wanted[2].id

\* C35: no failure record has a retry_count above the retry limit (each count is
\* one NaN failure of a hand-over to the embedding client), two overlapping runs
\* of the loop included.
C35_RetryCountWithinLimit ==
  \A r \in embeddings : r.retry_count <= RetryLimit

\* C36: a message with a success record has a vector in the message collection
\* of the vector store, and a session with a record in the session collection
\* has a vector in the session collection of the vector store.
C36_RecordHasVector ==
  /\ \A m \in MsgIds : HasRow(embeddings, m, MESSAGES) => chroma[m] # "absent"
  /\ \A s \in SessIds : sessRows[s] # -1 => sessChroma[s] # NoVector

(* ---------------- the sync daemon ---------------- *)
\* the stages of runFullSync, each in a try block of its own, and the summary
SyncPhases == << "claude_code", "cursor", "huddle", "embeddings", "summary" >>

\* variant of the running check that lets every call through
NeverSkip(running) == FALSE

\* cron.ts lines 23-26
ShouldSkip(running) == running

WithoutIndex(q, i) == SubSeq(q, 1, i - 1) \o SubSeq(q, i + 1, Len(q))

\* runSync up to its await: the check, the flag, and the call of runFullSync,
\* which runs to its first await
runSync ==
  IF ShouldSkip(isRunning)
    THEN /\ skipped' = skipped + 1
         /\ UNCHANGED << isRunning, syncsInFlight >>
    ELSE /\ isRunning' = TRUE
         /\ syncsInFlight' = Append(syncsInFlight, [at |-> 1, errors |-> 0])
         /\ UNCHANGED skipped

\* cron.ts line 65: the initial sync, before the job is started
InitialSync ==
  /\ dpc = "boot"
  /\ runSync
  /\ dpc' = "initial"
  /\ UNCHANGED << ticks, lastEnd, outsideCron >>

\* the CronJob calls runSync (cron.ts lines 42-48), once job.start() has run
CronTick ==
  /\ dpc = "scheduled"
  /\ ticks < MaxTicks
  /\ ticks' = ticks + 1
  /\ runSync
  /\ UNCHANGED << dpc, lastEnd, outsideCron >>

\* a stage of runFullSync resolves
PhaseDone ==
  /\ \E i \in DOMAIN syncsInFlight :
       /\ syncsInFlight[i].at < Len(SyncPhases)
       /\ syncsInFlight' = [syncsInFlight EXCEPT ![i].at = @ + 1]
  /\ UNCHANGED << isRunning, dpc, ticks, skipped, lastEnd, outsideCron >>

\* a stage of runFullSync throws: its catch pushes the error and the sync goes on
PhaseFails ==
  /\ \E i \in DOMAIN syncsInFlight :
       /\ syncsInFlight[i].at < Len(SyncPhases)
       /\ syncsInFlight' = [syncsInFlight EXCEPT ![i].at = @ + 1, ![i].errors = @ + 1]
  /\ UNCHANGED << isRunning, dpc, ticks, skipped, lastEnd, outsideCron >>

\* the end of runSync: the finally block, and after the initial sync job.start()
SyncEnds(i, how) ==
  /\ syncsInFlight' = WithoutIndex(syncsInFlight, i)
  /\ isRunning' = FALSE
  /\ lastEnd' = how
  /\ dpc' = IF dpc = "initial" THEN "scheduled" ELSE dpc
  /\ UNCHANGED << ticks, skipped, outsideCron >>

\* runFullSync returns its result
SyncReturns ==
  \E i \in DOMAIN syncsInFlight :
    /\ syncsInFlight[i].at = Len(SyncPhases)
    /\ SyncEnds(i, "returned")

\* runFullSync rejects, from code outside its try blocks
SyncThrows ==
  \E i \in DOMAIN syncsInFlight : SyncEnds(i, "threw")

CronInit ==
  /\ messages = [m \in MsgIds |-> Plain]
  /\ LoopIdle
  /\ sessions = [s \in SessIds |-> NewSession("cursor")]
  /\ AggIdle
  /\ NoScope
  /\ CentroidIdle
  /\ SearchIdle
  /\ AuxIdle
  /\ PlainQuery
  /\ AllVisible
  /\ crashed = {}
  /\ batchSize = BatchSize

CronNext ==
  \/ InitialSync
  \/ CronTick
  \/ PhaseDone
  \/ PhaseFails
  \/ SyncReturns
  \/ SyncThrows

CronSpec == CronInit /\ [][CronNext]_vars

\* C39: in one daemon process at most one full sync is in flight, the flag is
\* set exactly while one is, a scheduler tick that arrives while a sync is
\* running starts nothing and is counted as skipped, and a sync that ends,
\* returning or throwing, leaves the flag cleared.
C39_OneSyncAtATime ==
  /\ [](Len(syncsInFlight) <= 1 /\ (isRunning <=> syncsInFlight # << >>))
  /\ [][/\ (ticks' # ticks /\ isRunning) =>
             (syncsInFlight' = syncsInFlight /\ isRunning' /\ skipped' = skipped + 1)
        /\ (lastEnd' # lastEnd \/ Len(syncsInFlight') < Len(syncsInFlight)) => ~ isRunning']_vars

\* a tick was skipped while a sync was running, a later tick started a sync,
\* and the last sync to end threw
C39_Witness ==
  /\ skipped > 0
  /\ ticks > 1
  /\ lastEnd = "threw"
  /\ ~ isRunning
  /\ dpc = "scheduled"

\* C37: a session that needs embedding or re-embedding comes up in the for loop
\* of some later run of the aggregate path, whatever the other sessions do.
C37_PendingSessionIsReached ==
  \A s \in SessIds :
    NeedsEmbedding(s) ~> (aggpc = "loop" /\ aggQueue # << >> /\ Head(aggQueue) = s)

\* C38: a run that starts with no content added since the previous run does
\* not select a session whose record was written by markSessionProcessed (a
\* record without a vector).
C38_ProcessedLeavesQueue ==
  (rerun /\ aggpc = "loop") =>
    \A i \in DOMAIN aggQueue :
      ~ (sessRows[aggQueue[i]] # -1 /\ sessChroma[aggQueue[i]] = NoVector)

====
